---- MODULE Spec2Model ----
(***************************************************************************)
(* FlowLens: the SQLite-backed store, the indexing pipeline that fills it  *)
(* and the graph query engine that reads it.                               *)
(*                                                                         *)
(* Package paths and patterns are sequences of one-character strings so    *)
(* that prefix, substring and segment tests are computed, not assumed.     *)
(***************************************************************************)
EXTENDS Integers, Sequences, FiniteSets, TLC

VARIABLES
    db,        \* committed contents of .flowlens/index.db
    tx,        \* working copy of the open BatchTx, or NoTx
    pool,      \* connections of the *sql.DB pool: which exist, which holds the batch
    gb,        \* GraphBuilder fields: nodes, edges, visited, filtered
    stack,     \* call stack of GraphBuilder.expand: frames [sym, depth, todo]
    req,       \* the graph request being served, or NoReq
    resp,      \* the GraphResponse built for req, or NoResp
    idx,       \* the indexer: position in Indexer.Run, project on disk, history
    reader     \* what a server started on the project directory has read

vars == <<db, tx, pool, gb, stack, req, resp, idx, reader>>

----------------------------------------------------------------------------
(* Strings *)

HasPrefix(s, p) ==
    /\ Len(p) <= Len(s)
    /\ SubSeq(s, 1, Len(p)) = p

HasSuffix(s, p) ==
    /\ Len(p) <= Len(s)
    /\ SubSeq(s, Len(s) - Len(p) + 1, Len(s)) = p

Contains(s, sub) ==
    \E i \in 1..(Len(s) + 1) :
        /\ i + Len(sub) - 1 <= Len(s)
        /\ SubSeq(s, i, i + Len(sub) - 1) = sub

\* strings.Index(s, "/"): 0-based index of the first slash, -1 when absent
IndexSlash(s) ==
    IF \E i \in 1..Len(s) : s[i] = "/"
    THEN (CHOOSE i \in 1..Len(s) : s[i] = "/" /\ \A j \in 1..(i - 1) : s[j] # "/") - 1
    ELSE -1

\* Package paths of the modelled projects
PkgMain   == <<"m", "a", "i", "n">>
PkgApi    == <<"a", ".", "i", "o", "/", "a", "p", "i">>
PkgSvc    == <<"a", ".", "i", "o", "/", "s", "v", "c">>
PkgDb     == <<"a", ".", "i", "o", "/", "d", "b">>
PkgVendor == <<"v", "e", "n", "d", "o", "r", "/", "x">>
PkgFmt    == <<"f", "m", "t">>

PrefixDb  == <<"a", ".", "i", "o", "/", "d">>
PatSvcAll == <<"a", ".", "i", "o", "/", "s", "v", "c", "*">>
TagIoDb   == <<"i", "o", ":", "d", "b">>
TagPrefixIo == <<"i", "o", ":">>
TagLayerSvc == <<"l", "a", "y", "e", "r", ":", "s", "v", "c">>
TagLayerStore == <<"l", "a", "y", "e", "r", ":", "s", "t", "o", "r", "e">>

\* Receiver types as stored in symbols.recv_type
RecvNone  == <<>>
RecvT     == <<"*", "T">>
RecvSvc   == <<"*", "S", "v", "c">>
RecvStore == <<"*", "S", "t", "o", "r", "e">>

----------------------------------------------------------------------------
(* Classification helpers of the query engine *)

isStdlib(pkgPath) ==
    IF pkgPath = <<>> THEN FALSE
    ELSE LET firstSlash == IndexSlash(pkgPath) IN
         IF firstSlash = -1
         THEN ~Contains(pkgPath, <<".">>)
         ELSE ~Contains(SubSeq(pkgPath, 1, firstSlash), <<".">>)

isVendor(pkgPath) ==
    \/ Contains(pkgPath, <<"/", "v", "e", "n", "d", "o", "r", "/">>)
    \/ HasPrefix(pkgPath, <<"v", "e", "n", "d", "o", "r", "/">>)

matchPackagePattern(pattern, pkgPath) ==
    IF pattern = pkgPath THEN TRUE
    ELSE IF HasSuffix(pattern, <<"*">>)
         THEN HasPrefix(pkgPath, SubSeq(pattern, 1, Len(pattern) - 1))
    ELSE IF HasSuffix(pattern, <<"/", "*">>)
         THEN LET prefix == SubSeq(pattern, 1, Len(pattern) - 2) IN
              HasPrefix(pkgPath, prefix \o <<"/">>) \/ pkgPath = prefix
    ELSE FALSE

----------------------------------------------------------------------------
(* Store: tables and read queries *)

NoTx == [open |-> FALSE]
NoReq == [kind |-> "none"]
NoResp == [ready |-> FALSE]
NoReader == [seen |-> FALSE]

\* No run of the indexer yet: .flowlens/index.db does not exist.
IdleIndexer ==
    [ pc |-> "idle", exists |-> FALSE, disk |-> 1, loaded |-> 0, runs |-> 0,
      complete |-> FALSE, seq0 |-> [symbols |-> 0, entrypoints |-> 0],
      prev |-> [version |-> 0], last |-> [version |-> 0],
      stages |-> <<>>,         \* the batches of this run that committed, in order
      result |-> "none",       \* what Run returned: "ok", "error", or "none" yet
      failed |-> FALSE,        \* a store write of this run answered an error
      batchFailed |-> FALSE ]  \* a statement of the latest batch answered one

EmptyDb ==
    [ packages     |-> {},
      symbols      |-> {},
      call_edges   |-> {},
      entrypoints  |-> {},
      tags         |-> {},
      metadata     |-> {},
      seq_symbols  |-> 0,     \* sqlite_sequence row of symbols (AUTOINCREMENT)
      seq_entrypoints |-> 0,
      edge_inserts |-> {},    \* history, not a table: counts handed to
                              \* successful call-edge inserts, per call site
      fault |-> 0,            \* the database's environment: the fault-th
                              \* statement from now meets an I/O error (0: none)
      failed |-> FALSE ]      \* a statement of the running batch met an error

Sym(id, pkg, name, recv, kind, line) ==
    [id |-> id, pkg_path |-> pkg, name |-> name, recv_type |-> recv,
     kind |-> kind, line |-> line]

Edge(caller, callee, file, line, kind, count) ==
    [caller_id |-> caller, callee_id |-> callee, caller_file |-> file,
     caller_line |-> line, call_kind |-> kind, count |-> count]

HasSymbol(d, id) == \E s \in d.symbols : s.id = id

GetSymbolByID(d, id) == CHOOSE s \in d.symbols : s.id = id

GetSymbolTags(d, id) == {t.tag : t \in {u \in d.tags : u.symbol_id = id}}

\* call_edges JOIN symbols ON callee_id = id WHERE caller_id = callerID
GetCallees(d, callerID) ==
    {e \in d.call_edges : e.caller_id = callerID /\ HasSymbol(d, e.callee_id)}

----------------------------------------------------------------------------
(* Store: connections *)

\* Open runs its PRAGMAs and the schema through db.Exec one after another,
\* so on the first connection of the pool.  foreign_keys is a setting of the
\* connection it is executed on; a connection the pool opens later starts
\* with SQLite's default, which is off.
ForeignKeys(conn) == conn = 1

\* The connections a statement outside the batch can run on: an idle one of
\* the pool, or a new one when the batch holds the only connection.
FreeConns ==
    LET have == {1} \cup (IF pool.conn2 THEN {2} ELSE {})
        idle == have \ {pool.txConn}
    IN IF idle = {} THEN {2} ELSE idle

Acquired(conn) == [pool EXCEPT !.conn2 = @ \/ conn = 2]

----------------------------------------------------------------------------
(* Store: statements.  Each yields [ok, db]; a failed statement changes
   nothing. *)

Ok(d) == [ok |-> TRUE, db |-> d]
Failed(d) == [ok |-> FALSE, db |-> d]

SameKey(a, b) ==
    a.pkg_path = b.pkg_path /\ a.name = b.name /\ a.recv_type = b.recv_type

SameSite(a, b) ==
    /\ a.caller_id = b.caller_id /\ a.callee_id = b.callee_id
    /\ a.caller_file = b.caller_file /\ a.caller_line = b.caller_line

\* INSERT INTO packages ... ON CONFLICT(pkg_path) DO UPDATE
InsertPackageRow(d, pkg) ==
    Ok([d EXCEPT !.packages =
           {p \in @ : p.pkg_path # pkg.pkg_path} \cup {pkg}])

\* The symbols upsert if an empty receiver were stored as NULL: NULLs are
\* distinct in a unique index, so the conflict clause never fires for them.
InsertSymbolRow_NullRecv(d, fk, sym) ==
    IF sym.recv_type # RecvNone /\ \E s \in d.symbols : SameKey(s, sym)
    THEN Ok([d EXCEPT !.symbols =
               {IF SameKey(s, sym)
                THEN [s EXCEPT !.kind = sym.kind, !.line = sym.line]
                ELSE s : s \in @}])
    ELSE IF fk /\ ~\E p \in d.packages : p.pkg_path = sym.pkg_path
         THEN Failed(d)
    ELSE Ok([d EXCEPT !.symbols = @ \cup
                         {Sym(d.seq_symbols + 1, sym.pkg_path, sym.name,
                              sym.recv_type, sym.kind, sym.line)},
                      !.seq_symbols = @ + 1])

\* The symbols upsert as INSERT OR REPLACE: the conflicting row is deleted
\* and the new one takes a fresh id.
InsertSymbolRow_Replace(d, fk, sym) ==
    IF fk /\ ~\E p \in d.packages : p.pkg_path = sym.pkg_path
    THEN Failed(d)
    ELSE Ok([d EXCEPT !.symbols = {s \in @ : ~SameKey(s, sym)} \cup
                         {Sym(d.seq_symbols + 1, sym.pkg_path, sym.name,
                              sym.recv_type, sym.kind, sym.line)},
                      !.seq_symbols = @ + 1])

\* INSERT INTO symbols ... ON CONFLICT(pkg_path, name, recv_type) DO UPDATE
\* SET kind, file, line, sig.  recv_type is bound from a Go string, so an
\* empty receiver is stored as '' and takes part in the unique index.
InsertSymbolRow(d, fk, sym) ==
    IF \E s \in d.symbols : SameKey(s, sym)
    THEN Ok([d EXCEPT !.symbols =
               {IF SameKey(s, sym)
                THEN [s EXCEPT !.kind = sym.kind, !.line = sym.line]
                ELSE s : s \in @}])
    ELSE IF fk /\ ~\E p \in d.packages : p.pkg_path = sym.pkg_path
         THEN Failed(d)
    ELSE Ok([d EXCEPT !.symbols = @ \cup
                         {Sym(d.seq_symbols + 1, sym.pkg_path, sym.name,
                              sym.recv_type, sym.kind, sym.line)},
                      !.seq_symbols = @ + 1])

\* SELECT id FROM symbols WHERE pkg_path = ? AND name = ? AND recv_type = ?
\* 0 stands for sql.ErrNoRows.
GetSymbolID(d, pkgPath, name, recvType) ==
    LET key == [pkg_path |-> pkgPath, name |-> name, recv_type |-> recvType]
        rows == {s \in d.symbols : SameKey(s, key)}
    IN IF rows = {} THEN 0 ELSE (CHOOSE s \in rows : TRUE).id

\* The call-edge upsert with SET count = excluded.count.
InsertCallEdgeRow_Overwrite(d, fk, edge) ==
    IF \E e \in d.call_edges : SameSite(e, edge)
    THEN Ok([d EXCEPT !.call_edges =
               {IF SameSite(e, edge) THEN [e EXCEPT !.count = edge.count]
                ELSE e : e \in @}])
    ELSE IF fk /\ ~(HasSymbol(d, edge.caller_id) /\ HasSymbol(d, edge.callee_id))
         THEN Failed(d)
    ELSE Ok([d EXCEPT !.call_edges = @ \cup {edge}])

\* INSERT INTO call_edges ... ON CONFLICT(caller_id, callee_id, caller_file,
\* caller_line) DO UPDATE SET count = call_edges.count + excluded.count
InsertCallEdgeRow(d, fk, edge) ==
    IF \E e \in d.call_edges : SameSite(e, edge)
    THEN Ok([d EXCEPT !.call_edges =
               {IF SameSite(e, edge) THEN [e EXCEPT !.count = @ + edge.count]
                ELSE e : e \in @}])
    ELSE IF fk /\ ~(HasSymbol(d, edge.caller_id) /\ HasSymbol(d, edge.callee_id))
         THEN Failed(d)
    ELSE Ok([d EXCEPT !.call_edges = @ \cup {edge}])

\* INSERT INTO entrypoints (type, label, symbol_id, meta_json)
InsertEntrypointRow(d, fk, ep) ==
    IF fk /\ ~HasSymbol(d, ep.symbol_id) THEN Failed(d)
    ELSE Ok([d EXCEPT !.entrypoints = @ \cup
                         {[id |-> d.seq_entrypoints + 1, type |-> ep.type,
                           label |-> ep.label, symbol_id |-> ep.symbol_id]},
                      !.seq_entrypoints = @ + 1])

\* INSERT INTO tags ... ON CONFLICT(symbol_id, tag) DO UPDATE SET reason
InsertTagRow(d, fk, tag) ==
    IF \E t \in d.tags : t.symbol_id = tag.symbol_id /\ t.tag = tag.tag
    THEN Ok([d EXCEPT !.tags =
               {t \in @ : ~(t.symbol_id = tag.symbol_id /\ t.tag = tag.tag)}
               \cup {tag}])
    ELSE IF fk /\ ~HasSymbol(d, tag.symbol_id) THEN Failed(d)
    ELSE Ok([d EXCEPT !.tags = @ \cup {tag}])

\* INSERT INTO metadata ... ON CONFLICT(key) DO UPDATE SET value
SetMetadataRow(d, key, value) ==
    Ok([d EXCEPT !.metadata =
           {m \in @ : m.key # key} \cup {[key |-> key, value |-> value]}])

\* DELETE FROM <table>.  With foreign keys on, a parent table cannot be
\* emptied while rows refer to it.  AUTOINCREMENT sequences are kept.
DeleteFrom(d, fk, table) ==
    CASE table = "tags"        -> Ok([d EXCEPT !.tags = {}])
      [] table = "entrypoints" -> Ok([d EXCEPT !.entrypoints = {}])
      [] table = "call_edges"  -> Ok([d EXCEPT !.call_edges = {}])
      [] table = "symbols"     ->
            IF fk /\ \/ \E t \in d.tags : HasSymbol(d, t.symbol_id)
                     \/ \E e \in d.entrypoints : HasSymbol(d, e.symbol_id)
                     \/ \E c \in d.call_edges :
                           HasSymbol(d, c.caller_id) \/ HasSymbol(d, c.callee_id)
            THEN Failed(d)
            ELSE Ok([d EXCEPT !.symbols = {}])
      [] table = "packages"    ->
            IF fk /\ \E s \in d.symbols, p \in d.packages : s.pkg_path = p.pkg_path
            THEN Failed(d)
            ELSE Ok([d EXCEPT !.packages = {}])
      [] table = "metadata"    -> Ok([d EXCEPT !.metadata = {}])

\* Clear with a list that stops after the child tables
ClearTables_ChildrenOnly == <<"tags", "entrypoints", "call_edges">>

ClearTables == <<"tags", "entrypoints", "call_edges", "symbols", "packages", "metadata">>

\* The loop of Clear over a list of tables: it stops at the first failure.
RECURSIVE ClearFrom(_, _, _, _)
ClearFrom(d, fk, tables, i) ==
    IF i > Len(tables) THEN Ok(d)
    ELSE LET r == DeleteFrom(d, fk, tables[i]) IN
         IF r.ok THEN ClearFrom(r.db, fk, tables, i + 1) ELSE Failed(r.db)

\* A statement of a batch, r being what it does to d when the database can
\* carry it out: tx.Exec answers the error of the database (disk full, I/O
\* error, SQLITE_BUSY) or that of the statement; either way nothing is written.
BatchStmt(d, r) ==
    IF d.fault = 1 THEN Failed([d EXCEPT !.fault = 0, !.failed = TRUE])
    ELSE IF ~r.ok THEN Failed([d EXCEPT !.failed = TRUE])
    ELSE Ok([r.db EXCEPT !.fault = IF @ > 0 THEN @ - 1 ELSE 0])

\* A batch whose function returns without Commit keeps its rows
Rollback_KeepsRows(d, r) == r

\* defer batch.Rollback(): after Commit it does nothing; when the function
\* returned an error before Commit, the transaction is undone and the
\* database is as it was at BeginBatch.
DeferredRollback(d, r) == IF r.ok THEN r ELSE Failed(d)

\* Clear that deletes nothing and reports success
ClearRows_Nothing(d, fk) == Ok(d)

ClearRows(d, fk) == ClearFrom(d, fk, ClearTables, 1)

----------------------------------------------------------------------------
(* Graph query engine *)

DefaultMaxDepth == 6

DefaultGraphFilter ==
    [HideStdlib |-> FALSE, HideVendors |-> FALSE, StopAtIO |-> FALSE,
     StopAtPackagePrefix |-> <<>>, MaxDepth |-> DefaultMaxDepth,
     NoisePackages |-> <<>>]

NewGraphBuilder == [nodes |-> <<>>, edges |-> <<>>, visited |-> {}, filtered |-> 0]

shouldFilter(f, sym) ==
    \/ f.HideStdlib /\ isStdlib(sym.pkg_path)
    \/ f.HideVendors /\ isVendor(sym.pkg_path)
    \/ \E i \in 1..Len(f.NoisePackages) :
          matchPackagePattern(f.NoisePackages[i], sym.pkg_path)

shouldFilterCallee(f, sym) == shouldFilter(f, sym)

\* A builder that never stops expansion
shouldStopExpansion_Never(f, sym, tags) == FALSE

shouldStopExpansion(f, sym, tags) ==
    \/ f.StopAtIO /\ \E t \in tags : HasPrefix(t, TagPrefixIo)
    \/ \E i \in 1..Len(f.StopAtPackagePrefix) :
          HasPrefix(sym.pkg_path, f.StopAtPackagePrefix[i])

\* addNode: no change when the node exists; a filtered symbol is counted and
\* not added.  The caller guarantees the symbol exists.
addNode(d, f, g, id, depth, expanded) ==
    IF id \in DOMAIN g.nodes THEN g
    ELSE IF shouldFilter(f, GetSymbolByID(d, id))
         THEN [g EXCEPT !.filtered = @ + 1]
    ELSE [g EXCEPT !.nodes = @ @@ (id :> [depth |-> depth, expanded |-> expanded,
                                           tags |-> GetSymbolTags(d, id)])]

\* The rows of one callee, aggregated as in the calleeEdges map: counts are
\* summed and kind and call site are those of the first row, rows coming
\* ORDER BY caller_line.
AggregateEdge(symbolID, rows) ==
    LET first == CHOOSE r \in rows : \A o \in rows : r.caller_line <= o.caller_line
        RECURSIVE Sum(_)
        Sum(S) == IF S = {} THEN 0
                  ELSE LET r == CHOOSE x \in S : TRUE IN r.count + Sum(S \ {r})
    IN [source_id |-> symbolID, target_id |-> first.callee_id,
        call_kind |-> first.call_kind, callsite_count |-> Sum(rows),
        caller_line |-> first.caller_line]

\* expand that does not record the symbols it has expanded
MarkVisited_Forgets(g, symbolID) == g

\* gb.visited[symbolID] = true
MarkVisited(g, symbolID) == [g EXCEPT !.visited = @ \cup {symbolID}]

\* expand up to the loop over calleeEdges: the early returns, the visited
\* mark and the aggregation.  Yields the builder and the stack, with a new
\* frame when the loop is entered.
EnterExpand(d, f, g, st, symbolID, maxDepth, currentDepth) ==
    IF currentDepth >= maxDepth THEN [gb |-> g, stack |-> st]
    ELSE IF symbolID \in g.visited THEN [gb |-> g, stack |-> st]
    ELSE LET g1 == MarkVisited(g, symbolID) IN
         IF ~HasSymbol(d, symbolID) THEN [gb |-> g1, stack |-> st]
         ELSE IF shouldStopExpansion(f, GetSymbolByID(d, symbolID),
                                     GetSymbolTags(d, symbolID))
              THEN [gb |-> g1, stack |-> st]
         ELSE LET callees == GetCallees(d, symbolID)
                  kept == {c \in callees :
                             ~shouldFilterCallee(f, GetSymbolByID(d, c.callee_id))}
                  ids == {c.callee_id : c \in kept}
                  calleeEdges == [c \in ids |->
                      AggregateEdge(symbolID, {r \in kept : r.callee_id = c})]
              IN [gb |-> [g1 EXCEPT !.filtered = @ + Cardinality(callees \ kept)],
                  stack |-> Append(st, [sym |-> symbolID, depth |-> currentDepth,
                                        todo |-> ids, calleeEdges |-> calleeEdges])]

buildResponse(g, rootID, maxDepth) ==
    [ready |-> TRUE, nodes |-> g.nodes, edges |-> g.edges, root_id |-> rootID,
     max_depth |-> maxDepth, filtered |-> g.filtered]

\* Where a query comes from: a call of the builder, or a request to
\* /api/graph/<action>/<id> whose depth parameter was param
NoParam == -1
Direct == [http |-> FALSE]
Http(param) == [http |-> TRUE, param |-> param]

\* The root node and the first frame of expand, on the new GraphBuilder of
\* the request.
StartQuery(kind, symbolID, depth, requested, f, origin) ==
    /\ req = NoReq
    /\ HasSymbol(db, symbolID)
    /\ LET g1 == addNode(db, f, NewGraphBuilder, symbolID, 0, TRUE)
           r  == EnterExpand(db, f, g1, <<>>, symbolID, depth, 0)
       IN /\ gb' = r.gb
          /\ stack' = r.stack
          /\ req' = [kind |-> kind, id |-> symbolID, depth |-> depth,
                     requested |-> requested, filter |-> f, origin |-> origin]
    /\ resp' = NoResp
    /\ UNCHANGED <<db, tx, pool, idx, reader>>

\* BuildFromRoot up to the first frame of expand: the depth is clamped.
BuildFromRootFrom(rootID, depth, f, origin) ==
    LET d1 == IF f.MaxDepth > 0 /\ depth > f.MaxDepth THEN f.MaxDepth ELSE depth
    IN StartQuery("root", rootID, d1, depth, f, origin)

\* Expand on a new builder: the node is absent, so it is added as the root
\* is; the depth is used as given.
ExpandFrom(symbolID, depth, f, origin) ==
    StartQuery("expand", symbolID, depth, depth, f, origin)

BuildFromRoot(rootID, depth, f) == BuildFromRootFrom(rootID, depth, f, Direct)

Expand(symbolID, depth, f) == ExpandFrom(symbolID, depth, f, Direct)

DefaultRootDepth == 3
DefaultExpandDepth == 1

\* handleGraph: the depth parameter replaces the default when it is a number
\* above 0; the filter is the default one overlaid with the filters
\* parameter; the symbol must exist.
handleGraph(action, symbolID, depthParam, f) ==
    LET default == IF action = "expand" THEN DefaultExpandDepth ELSE DefaultRootDepth
        depth == IF depthParam # NoParam /\ depthParam > 0 THEN depthParam ELSE default
    IN CASE action = "root"   -> BuildFromRootFrom(symbolID, depth, f, Http(depthParam))
         [] action = "expand" -> ExpandFrom(symbolID, depth, f, Http(depthParam))

\* One iteration of the loop over calleeEdges, whose order is that of a Go
\* map: any callee not yet handled comes next.
ExpandCallee ==
    /\ req # NoReq /\ ~resp.ready /\ stack # <<>>
    /\ LET top == stack[Len(stack)] IN
       \E calleeID \in top.todo :
          LET g1 == [gb EXCEPT !.edges = Append(@, top.calleeEdges[calleeID])]
              g2 == addNode(db, req.filter, g1, calleeID, top.depth + 1, FALSE)
              st == [stack EXCEPT ![Len(stack)].todo = @ \ {calleeID}]
              r  == EnterExpand(db, req.filter, g2, st, calleeID, req.depth,
                                top.depth + 1)
          IN /\ gb' = r.gb
             /\ stack' = r.stack
    /\ UNCHANGED <<db, tx, pool, req, resp, idx, reader>>

\* The end of expand: the source node is marked expanded and the call returns.
ExpandReturn ==
    /\ req # NoReq /\ ~resp.ready /\ stack # <<>>
    /\ LET top == stack[Len(stack)] IN
          /\ top.todo = {}
          /\ gb' = IF top.sym \in DOMAIN gb.nodes
                   THEN [gb EXCEPT !.nodes[top.sym].expanded = TRUE]
                   ELSE gb
          /\ stack' = SubSeq(stack, 1, Len(stack) - 1)
    /\ UNCHANGED <<db, tx, pool, req, resp, idx, reader>>

Respond ==
    /\ req # NoReq /\ ~resp.ready /\ stack = <<>>
    /\ resp' = buildResponse(gb, req.id, req.depth)
    /\ UNCHANGED <<db, tx, pool, gb, stack, req, idx, reader>>

----------------------------------------------------------------------------
(* Graph queries over a stored call graph *)

MaxReqDepth == 3

GraphSymbols ==
    { Sym(1, PkgMain, "main", RecvNone, "func", 1),
      Sym(2, PkgApi, "Handle", RecvNone, "func", 2),
      Sym(3, PkgSvc, "Get", RecvSvc, "method", 3),
      Sym(4, PkgDb, "Find", RecvStore, "method", 4),
      Sym(5, PkgDb, "scan", RecvNone, "func", 5) }

GraphTags ==
    { [symbol_id |-> 3, tag |-> TagLayerSvc, reason |-> "layer"],
      [symbol_id |-> 4, tag |-> TagIoDb, reason |-> "recv"] }

CandidateEdges ==
    { Edge(1, 2, "main.go", 10, "static", 1),
      Edge(1, 2, "main.go", 12, "go", 1),
      Edge(1, 3, "main.go", 11, "static", 1),
      Edge(2, 3, "api.go", 20, "interface", 1),
      Edge(3, 4, "svc.go", 30, "static", 2),
      Edge(4, 5, "db.go", 40, "static", 1),
      Edge(4, 2, "db.go", 41, "defer", 1) }

\* scan is recursive in every stored graph
SelfCalls == { Edge(5, 5, "db.go", 50, "static", 1) }

GraphFilters ==
    { DefaultGraphFilter,
      [DefaultGraphFilter EXCEPT !.HideStdlib = TRUE],
      [DefaultGraphFilter EXCEPT !.StopAtIO = TRUE],
      [DefaultGraphFilter EXCEPT !.StopAtPackagePrefix = <<PrefixDb>>],
      [DefaultGraphFilter EXCEPT !.NoisePackages = <<PatSvcAll>>,
                                 !.HideVendors = TRUE],
      [DefaultGraphFilter EXCEPT !.MaxDepth = 0],
      [DefaultGraphFilter EXCEPT !.MaxDepth = 2] }

PoolAtOpen == [conn2 |-> FALSE, txConn |-> 0]

InitGraph ==
    /\ \E E \in SUBSET CandidateEdges :
          db = [EmptyDb EXCEPT !.symbols = GraphSymbols, !.tags = GraphTags,
                               !.call_edges = E \cup SelfCalls, !.seq_symbols = 5]
    /\ tx = NoTx
    /\ pool = PoolAtOpen
    /\ gb = NewGraphBuilder
    /\ stack = <<>>
    /\ req = NoReq
    /\ resp = NoResp
    /\ idx = IdleIndexer
    /\ reader = NoReader

NextGraph ==
    \/ \E id \in 1..5, depth \in 0..MaxReqDepth, f \in GraphFilters :
          BuildFromRoot(id, depth, f)
    \/ \E id \in 1..5, depth \in 0..MaxReqDepth, f \in GraphFilters :
          Expand(id, depth, f)
    \/ \E action \in {"root", "expand"}, id \in 1..5,
          depthParam \in {NoParam, 0}, f \in GraphFilters :
          handleGraph(action, id, depthParam, f)
    \/ ExpandCallee
    \/ ExpandReturn
    \/ Respond

SpecGraph == InitGraph /\ [][NextGraph]_vars

\* A request that has been started is carried through: the handler's
\* goroutine keeps running until it has written the response.
SpecGraphFair ==
    SpecGraph /\ WF_vars(ExpandCallee \/ ExpandReturn \/ Respond)

----------------------------------------------------------------------------
(* Claims about graph responses *)

ResponseReady == req # NoReq /\ resp.ready

NodeIds(r) == DOMAIN r.nodes

\* C1: every edge of a graph response has its source_id and its target_id
\* among the ids of the response's nodes.
C1_EdgeEndpointsAreNodes ==
    ResponseReady =>
        \A i \in 1..Len(resp.edges) :
            /\ resp.edges[i].source_id \in NodeIds(resp)
            /\ resp.edges[i].target_id \in NodeIds(resp)

\* The callees of id that pass the callee filters, and whether id is a node
\* at which expansion stops.
PassingCallees(d, f, id) ==
    {e.callee_id : e \in {c \in GetCallees(d, id) :
                            ~shouldFilterCallee(f, GetSymbolByID(d, c.callee_id))}}

Stopped(d, f, id) ==
    shouldStopExpansion(f, GetSymbolByID(d, id), GetSymbolTags(d, id))

\* The symbols within k call steps of the frontier, level by level.
RECURSIVE ReachWithin(_, _, _, _, _)
ReachWithin(d, f, frontier, seen, k) ==
    IF k = 0 \/ frontier = {} THEN seen
    ELSE LET next == UNION {IF Stopped(d, f, n) THEN {} ELSE PassingCallees(d, f, n) :
                              n \in frontier} \ seen
         IN ReachWithin(d, f, next, seen \cup next, k - 1)

\* C2: the node set of a root response is exactly the root plus every symbol
\* reachable from it within the depth along filtered, unstopped paths,
\* whatever the order in which callees were visited.
C2_NodesAreExactlyReachable ==
    (ResponseReady /\ req.kind = "root") =>
        NodeIds(resp) = ReachWithin(db, req.filter, {req.id}, {req.id}, req.depth)

\* The edges of the builder are pairwise different in (source, target), and
\* the frames of expand are of different symbols, each marked visited.
NoRepeats ==
    /\ \A i, j \in 1..Len(gb.edges) :
          (gb.edges[i].source_id = gb.edges[j].source_id
             /\ gb.edges[i].target_id = gb.edges[j].target_id) => i = j
    /\ \A i, j \in 1..Len(stack) : stack[i].sym = stack[j].sym => i = j
    /\ ResponseReady =>
          \A i, j \in 1..Len(resp.edges) :
              (resp.edges[i].source_id = resp.edges[j].source_id
                 /\ resp.edges[i].target_id = resp.edges[j].target_id) => i = j

\* A symbol of which expand starts the loop over the callees was not
\* expanded before in the query.
ExpandsOnce ==
    (req # NoReq /\ Len(stack') > Len(stack)) =>
        stack'[Len(stack')].sym \notin gb.visited

\* C14: on every stored call graph, cycles and self-calls included, a graph
\* query terminates with its response, no symbol is expanded twice in the
\* query, and the response holds each (source, target) pair at most once
\* as an edge (its nodes are keyed by symbol id, so each symbol at most once).
C14_TerminatesWithoutRepeats ==
    /\ []NoRepeats
    /\ [][ExpandsOnce]_vars
    /\ (req # NoReq) ~> ResponseReady

\* The response of a query that went round the cycle 2 -> 3 -> 4 -> 2 and
\* through the self-call of 5.
C14_Witness ==
    /\ ResponseReady
    /\ \A pair \in {<<2, 3>>, <<3, 4>>, <<4, 2>>, <<5, 5>>} :
          \E i \in 1..Len(resp.edges) :
              resp.edges[i].source_id = pair[1] /\ resp.edges[i].target_id = pair[2]

\* C15: when filter.max_depth is set (above 0), no node of a response, of a
\* root or an expand query, lies deeper than filter.max_depth.
C15_DepthClamped ==
    (ResponseReady /\ req.filter.MaxDepth > 0) =>
        \A n \in NodeIds(resp) : resp.nodes[n].depth <= req.filter.MaxDepth

RootOnly(r, rootID) == NodeIds(r) = {rootID} /\ r.edges = <<>>

\* C16: a query whose filter has max_depth = 0 answers the root as its only
\* node and no edges, whatever depth was requested.
C16_MaxDepthZeroRootOnly ==
    (ResponseReady /\ req.filter.MaxDepth = 0) => RootOnly(resp, req.id)

\* C17: a query with depth = 0, given to the builder or as depth=0 to the
\* graph endpoint, answers the root as its only node and no edges.
C17_DepthZeroRootOnly ==
    (ResponseReady /\ \/ ~req.origin.http /\ req.requested = 0
                      \/ req.origin.http /\ req.origin.param = 0) =>
        RootOnly(resp, req.id)

\* Where the filter says expansion stops: stop_at_io and an io:* tag on the
\* node, or a package path starting with one of stop_at_package_prefix
MustStop(f, pkgPath, tags) ==
    \/ f.StopAtIO /\ \E t \in tags : HasPrefix(t, <<"i", "o", ":">>)
    \/ \E i \in 1..Len(f.StopAtPackagePrefix) :
          HasPrefix(pkgPath, f.StopAtPackagePrefix[i])

\* C18: a node at which expansion stops is the source of no edge of the
\* response, and it stays a node: every edge to it has it among the nodes.
C18_StoppedNodeHasNoEdges ==
    ResponseReady =>
        /\ \A n \in NodeIds(resp) :
              MustStop(req.filter, GetSymbolByID(db, n).pkg_path, resp.nodes[n].tags) =>
                  \A i \in 1..Len(resp.edges) : resp.edges[i].source_id # n
        /\ \A i \in 1..Len(resp.edges) :
              LET n == resp.edges[i].target_id IN
              MustStop(req.filter, GetSymbolByID(db, n).pkg_path, GetSymbolTags(db, n))
                  => n \in NodeIds(resp)

\* A response with an edge to a node that has callees in the store and at
\* which expansion stopped, once for its io:* tag and once for its package.
C18_Witness ==
    /\ ResponseReady /\ req.depth = MaxReqDepth
    /\ req.filter.StopAtIO \/ req.filter.StopAtPackagePrefix # <<>>
    /\ \E i \in 1..Len(resp.edges) :
          LET n == resp.edges[i].target_id IN
          /\ n \in NodeIds(resp)
          /\ MustStop(req.filter, GetSymbolByID(db, n).pkg_path, resp.nodes[n].tags)
          /\ GetCallees(db, n) # {}
          /\ resp.nodes[n].depth < req.depth

----------------------------------------------------------------------------
(* Store API: single statements and batches *)

MaxSeq == 2         \* rows ever given an id, per AUTOINCREMENT table
MaxEntrySeq == 1    \* entrypoints rows ever given an id
MaxCount == 3       \* largest count a call-edge row reaches

PackageInputs == {[pkg_path |-> PkgApi]}

\* Two functions of one name in one package, with and without a receiver, the
\* first at two positions; and one in a package that has no packages row.
SymbolInputs ==
    { [pkg_path |-> PkgApi, name |-> "F", recv_type |-> RecvNone, kind |-> "func", line |-> 1],
      [pkg_path |-> PkgApi, name |-> "F", recv_type |-> RecvNone, kind |-> "func", line |-> 2],
      [pkg_path |-> PkgApi, name |-> "F", recv_type |-> RecvT, kind |-> "method", line |-> 1],
      [pkg_path |-> PkgDb, name |-> "F", recv_type |-> RecvNone, kind |-> "func", line |-> 1] }

EdgeInputs == { Edge(1, 2, "f.go", 7, "static", c) : c \in 1..2 }

EntrypointInputs ==
    { [type |-> "http", label |-> "GET /", symbol_id |-> id] : id \in 1..2 }

TagInputs ==
    { [symbol_id |-> 1, tag |-> TagLayerSvc, reason |-> "pkg"],
      [symbol_id |-> 1, tag |-> TagLayerStore, reason |-> "pkg"] }

MetadataInputs == {<<"indexed_at", v>> : v \in 1..2}

Site(e) == <<e.caller_id, e.callee_id, e.caller_file, e.caller_line>>

\* History of a successful call-edge insert: add its count to the site's total.
Logged(d, e) ==
    LET old == {h \in d.edge_inserts : h.site = Site(e)}
        sum == IF old = {} THEN 0 ELSE (CHOOSE h \in old : TRUE).total
    IN [d EXCEPT !.edge_inserts =
           (@ \ old) \cup {[site |-> Site(e), total |-> sum + e.count]}]

WithinBounds(d) ==
    /\ d.seq_symbols <= MaxSeq
    /\ d.seq_entrypoints <= MaxEntrySeq
    /\ \A e \in d.call_edges : e.count <= MaxCount

\* A statement through s.db: it runs on a free connection and is its own
\* transaction.  A transaction that has started on another connection holds
\* the database, so single statements wait for an idle database.  byFk is the
\* statement's result with foreign keys off and on.
StoreExec(byFk) ==
    /\ ~(tx.open /\ tx.started)
    /\ \E conn \in FreeConns :
          LET r == byFk[ForeignKeys(conn)] IN
          /\ WithinBounds(r.db)
          /\ db' = r.db
          /\ pool' = Acquired(conn)
    /\ UNCHANGED <<tx, gb, stack, req, resp, idx, reader>>

\* The contents a statement of the batch works on: the batch's working copy,
\* which starts from the committed contents.
TxBase == IF tx.open /\ tx.started THEN tx.db ELSE db

TxForeignKeys == ForeignKeys(pool.txConn)

\* A statement through b.tx with result r.
BatchExec(r) ==
    /\ tx.open
    /\ WithinBounds(r.db)
    /\ tx' = [open |-> TRUE, started |-> TRUE, db |-> r.db]
    /\ UNCHANGED <<db, pool, gb, stack, req, resp, idx, reader>>

\* A successful call-edge insert, entered in the history.
LoggedResult(r, edge) == IF r.ok THEN Ok(Logged(r.db, edge)) ELSE r

InsertPackage(pkg) ==
    StoreExec([fk \in BOOLEAN |-> InsertPackageRow(db, pkg)])

InsertSymbol(sym) ==
    StoreExec([fk \in BOOLEAN |-> InsertSymbolRow(db, fk, sym)])

InsertCallEdge(edge) ==
    StoreExec([fk \in BOOLEAN |->
                  LoggedResult(InsertCallEdgeRow(db, fk, edge), edge)])

InsertEntrypoint(ep) ==
    StoreExec([fk \in BOOLEAN |-> InsertEntrypointRow(db, fk, ep)])

InsertTag(tag) ==
    StoreExec([fk \in BOOLEAN |-> InsertTagRow(db, fk, tag)])

SetMetadata(key, value) ==
    StoreExec([fk \in BOOLEAN |-> SetMetadataRow(db, key, value)])

\* The rows are gone and with them the history of their inserts.
Cleared(r) == IF r.ok THEN Ok([r.db EXCEPT !.edge_inserts = {}]) ELSE r

\* Clear: one DELETE per table, each on a free connection.  The children go
\* first, so the result does not depend on the connections chosen.
Clear ==
    StoreExec([fk \in BOOLEAN |-> Cleared(ClearRows(db, fk))])

\* A read through s.db (GetStats, GetAllSymbolsForTagging, ...): it needs a
\* connection of its own while a batch is open.
StoreQuery ==
    /\ \E conn \in FreeConns : pool' = Acquired(conn)
    /\ UNCHANGED <<db, tx, gb, stack, req, resp, idx, reader>>

BeginBatch ==
    /\ ~tx.open
    /\ \E conn \in FreeConns :
          pool' = [Acquired(conn) EXCEPT !.txConn = conn]
    /\ tx' = [open |-> TRUE, started |-> FALSE]
    /\ UNCHANGED <<db, gb, stack, req, resp, idx, reader>>

BatchInsertPackage(pkg) ==
    BatchExec(InsertPackageRow(TxBase, pkg))

BatchInsertSymbol(sym) ==
    BatchExec(InsertSymbolRow(TxBase, TxForeignKeys, sym))

BatchInsertCallEdge(edge) ==
    BatchExec(LoggedResult(InsertCallEdgeRow(TxBase, TxForeignKeys, edge), edge))

BatchInsertEntrypoint(ep) ==
    BatchExec(InsertEntrypointRow(TxBase, TxForeignKeys, ep))

BatchInsertTag(tag) ==
    BatchExec(InsertTagRow(TxBase, TxForeignKeys, tag))

Commit ==
    /\ tx.open
    /\ db' = IF tx.started THEN tx.db ELSE db
    /\ tx' = NoTx
    /\ pool' = [pool EXCEPT !.txConn = 0]
    /\ UNCHANGED <<gb, stack, req, resp, idx, reader>>

Rollback ==
    /\ tx.open
    /\ tx' = NoTx
    /\ pool' = [pool EXCEPT !.txConn = 0]
    /\ UNCHANGED <<db, gb, stack, req, resp, idx, reader>>

Init ==
    /\ db = EmptyDb
    /\ tx = NoTx
    /\ pool = PoolAtOpen
    /\ gb = NewGraphBuilder
    /\ stack = <<>>
    /\ req = NoReq
    /\ resp = NoResp
    /\ idx = IdleIndexer
    /\ reader = NoReader

Next ==
    \/ \E pkg \in PackageInputs : InsertPackage(pkg)
    \/ \E sym \in SymbolInputs : InsertSymbol(sym)
    \/ \E edge \in EdgeInputs : InsertCallEdge(edge)
    \/ \E ep \in EntrypointInputs : InsertEntrypoint(ep)
    \/ \E tag \in TagInputs : InsertTag(tag)
    \/ Clear
    \/ StoreQuery
    \/ BeginBatch
    \/ \E pkg \in PackageInputs : BatchInsertPackage(pkg)
    \/ \E sym \in SymbolInputs : BatchInsertSymbol(sym)
    \/ \E edge \in EdgeInputs : BatchInsertCallEdge(edge)
    \/ \E ep \in EntrypointInputs : BatchInsertEntrypoint(ep)
    \/ \E tag \in TagInputs : BatchInsertTag(tag)
    \/ Commit
    \/ Rollback

Spec == Init /\ [][Next]_vars

----------------------------------------------------------------------------
(* Claims about the store API *)

\* The contents a statement can see: the committed tables and, once the batch
\* has run a statement, its working copy.
Visible == {db} \cup (IF tx.open /\ tx.started THEN {tx.db} ELSE {})

\* C4: after any sequence of symbol inserts, upserts, batch commits and
\* rollbacks, no two symbols rows share (pkg_path, name, recv_type), an empty
\* recv_type included.
C4_SymbolKeyUnique ==
    \A d \in Visible : \A a, b \in d.symbols : SameKey(a, b) => a = b

\* Both F's of the package are committed and a batch has upserted the
\* receiver-less one over its committed row.
C4_Witness ==
    /\ tx.open /\ tx.started
    /\ \E a, c \in db.symbols, b \in tx.db.symbols :
          /\ SameKey(a, b) /\ a.recv_type = RecvNone /\ a.line # b.line
          /\ c.pkg_path = a.pkg_path /\ c.name = a.name /\ c.recv_type = RecvT

\* C6: once a call site has been inserted n times, there is exactly one
\* call_edges row for it and its count is the sum of the inserted counts.
C6_EdgeCountIsSum ==
    \A d \in Visible : \A h \in d.edge_inserts :
        LET rows == {e \in d.call_edges : Site(e) = h.site} IN
        /\ Cardinality(rows) = 1
        /\ \A e \in rows : e.count = h.total

\* A call site inserted at least twice, committed.
C6_Witness ==
    /\ ~tx.open
    /\ \E h \in db.edge_inserts : h.total = MaxCount
    /\ \E e \in db.call_edges : e.count = MaxCount

KeyID(d, sym) == GetSymbolID(d, sym.pkg_path, sym.name, sym.recv_type)

\* C7: an upsert of a symbol whose key already exists keeps the row's id:
\* GetSymbolID answers the same id before and after, in the committed tables
\* and in the batch (only emptying the table makes the key unknown).
C7_UpsertKeepsId ==
    [][ /\ \A sym \in SymbolInputs :
             KeyID(db, sym) # 0 =>
                \/ KeyID(db', sym) = KeyID(db, sym)
                \/ db'.symbols = {}
        /\ (tx'.open /\ tx'.started) =>
              LET base == IF tx.open /\ tx.started THEN tx.db ELSE db IN
              \A sym \in SymbolInputs :
                  KeyID(base, sym) # 0 => KeyID(tx'.db, sym) = KeyID(base, sym)
      ]_vars

\* A batch has upserted the only committed symbol with another position and
\* GetSymbolID finds it under the committed id.
C7_Witness ==
    /\ tx.open /\ tx.started
    /\ Cardinality(db.symbols) = 1
    /\ \E s \in db.symbols, t \in tx.db.symbols :
          /\ SameKey(s, t) /\ s.line # t.line
          /\ KeyID(db, s) = s.id /\ KeyID(tx.db, s) = s.id

\* C8: in every committed store state, the symbol_id of every entrypoints row
\* is the id of an existing symbols row.
C8_EntrypointSymbolExists ==
    \A ep \in db.entrypoints : HasSymbol(db, ep.symbol_id)

----------------------------------------------------------------------------
(* Indexer: the project on disk *)

Range(seq) == {seq[i] : i \in 1..Len(seq)}

NoRecv == [has |-> FALSE]
Recv(ptr, name, generic) ==
    [has |-> TRUE, ptr |-> ptr, name |-> name, generic |-> generic]

\* formatReceiverType, on the receiver expression of an *ast.FuncDecl
formatReceiverType(r) ==
    (IF r.ptr THEN <<"*">> ELSE <<>>) \o r.name
        \o (IF r.generic THEN <<"[", ".", ".", ".", "]">> ELSE <<>>)

\* formatSSAReceiverType, on the receiver type of an *ssa.Function: a
\* pointer is "*" + element, a named type its bare name (no type arguments).
formatSSAReceiverType(r) ==
    (IF r.ptr THEN <<"*">> ELSE <<>>) \o r.name

FuncDecl(pkg, name, recv, line) ==
    [decl |-> "func", pkg |-> pkg, name |-> name, recv |-> recv, line |-> line]

TypeDecl(pkg, name, line) ==
    [decl |-> "type", pkg |-> pkg, name |-> name, recv |-> NoRecv, line |-> line]

funcDeclToSymbol(decl) ==
    [ pkg_path |-> decl.pkg, name |-> decl.name,
      recv_type |-> IF decl.recv.has THEN formatReceiverType(decl.recv) ELSE RecvNone,
      kind |-> IF decl.recv.has THEN "method" ELSE "func",
      line |-> decl.line ]

typeSpecToSymbol(decl) ==
    [ pkg_path |-> decl.pkg, name |-> decl.name, recv_type |-> RecvNone,
      kind |-> "type", line |-> decl.line ]

declToSymbol(decl) ==
    IF decl.decl = "func" THEN funcDeclToSymbol(decl) ELSE typeSpecToSymbol(decl)

\* An *ssa.Function, and the three shapes of a call's callee
Fn(pkg, name, recv) == [pkg |-> pkg, name |-> name, recv |-> recv]
Static(fn) == [mode |-> "static", fn |-> fn]
Invoke(method) == [mode |-> "invoke", method |-> method]
FuncVal(fn) == [mode |-> "funcval", fn |-> fn]

\* A call, go or defer instruction; line 0 stands for an invalid position.
Call(caller, op, callee, file, line) ==
    [caller |-> caller, op |-> op, callee |-> callee, file |-> file, line |-> line]

\* A route registration and the expression given as its handler
Ident(name) == [form |-> "ident", name |-> name]
Selector(x, sel) == [form |-> "selector", x |-> x, sel |-> sel]
FuncLit == [form |-> "funclit"]
Route(pkg, label, handler) == [pkg |-> pkg, label |-> label, handler |-> handler]

TypeSvc   == <<"S", "v", "c">>
TypeStore == <<"S", "t", "o", "r", "e">>
TypeBox   == <<"B", "o", "x">>

FnHandle   == Fn(PkgApi, "Handle", NoRecv)
FnSvcGet   == Fn(PkgSvc, "Get", Recv(TRUE, TypeSvc, FALSE))
FnStoreGet == Fn(PkgDb, "Get", Recv(TRUE, TypeStore, FALSE))
FnScan     == Fn(PkgDb, "scan", NoRecv)
FnClosure  == Fn(PkgDb, "scan$1", NoRecv)
FnBoxPut   == Fn(PkgSvc, "Put", Recv(TRUE, TypeBox, TRUE))
FnPrintln  == Fn(PkgFmt, "Println", NoRecv)

\* Three packages; Handle calls Get through an interface that *Svc and
\* *Store both implement; one call site holds two calls of scan; Println
\* belongs to no project package.
ProjectV1 ==
    [ pkgs  |-> <<PkgApi, PkgSvc, PkgDb>>,
      decls |-> << TypeDecl(PkgApi, "Reader", 1),
                   FuncDecl(PkgApi, "Handle", NoRecv, 2),
                   FuncDecl(PkgSvc, "Get", Recv(TRUE, TypeSvc, FALSE), 3),
                   FuncDecl(PkgDb, "Get", Recv(TRUE, TypeStore, FALSE), 4),
                   FuncDecl(PkgDb, "scan", NoRecv, 5) >>,
      calls |-> << Call(FnHandle, "call", Invoke("Get"), "api.go", 20),
                   Call(FnSvcGet, "call", Static(FnScan), "svc.go", 30),
                   Call(FnSvcGet, "call", Static(FnScan), "svc.go", 30),
                   Call(FnStoreGet, "go", Static(FnScan), "db.go", 40),
                   Call(FnStoreGet, "defer", Static(FnPrintln), "db.go", 41),
                   Call(FnScan, "call", FuncVal(FnClosure), "db.go", 50) >>,
      routes |-> << Route(PkgApi, "GET /", Ident("Handle")),
                    Route(PkgSvc, "GET /get", Selector(TypeSvc, "Get")),
                    Route(PkgApi, "POST /x", FuncLit) >> ]

\* The project after an edit: package db is gone, Handle has moved, and a
\* method on a generic type has appeared.
ProjectV2 ==
    [ pkgs  |-> <<PkgApi, PkgSvc>>,
      decls |-> << TypeDecl(PkgApi, "Reader", 1),
                   FuncDecl(PkgApi, "Handle", NoRecv, 7),
                   FuncDecl(PkgSvc, "Get", Recv(TRUE, TypeSvc, FALSE), 3),
                   FuncDecl(PkgSvc, "Put", Recv(TRUE, TypeBox, TRUE), 9) >>,
      calls |-> << Call(FnHandle, "call", Invoke("Get"), "api.go", 21),
                   Call(FnHandle, "call", Static(FnBoxPut), "api.go", 22),
                   Call(FnSvcGet, "call", Static(FnPrintln), "svc.go", 31),
                   Call(FnSvcGet, "defer", Static(FnHandle), "svc.go", 0) >>,
      routes |-> << Route(PkgApi, "GET /", Ident("Handle")),
                    Route(PkgApi, "GET /none", Ident("missing")) >> ]

Projects == <<ProjectV1, ProjectV2>>

----------------------------------------------------------------------------
(* Indexer: symbols and entry points *)

\* extractFileSymbols over the declarations decls[i..] of one package
RECURSIVE extractFileSymbols(_, _, _, _)
extractFileSymbols(d, fk, decls, i) ==
    IF i > Len(decls) THEN Ok(d)
    ELSE LET r == BatchStmt(d, InsertSymbolRow(d, fk, declToSymbol(decls[i]))) IN
         IF r.ok THEN extractFileSymbols(r.db, fk, decls, i + 1) ELSE r

\* The loop of ExtractSymbols over l.pkgs[i..]: the package row, then the
\* package's declarations.
RECURSIVE ExtractSymbolsFrom(_, _, _, _)
ExtractSymbolsFrom(d, fk, proj, i) ==
    IF i > Len(proj.pkgs) THEN Ok(d)
    ELSE LET InPkg(decl) == decl.pkg = proj.pkgs[i]
             r1 == BatchStmt(d, InsertPackageRow(d, [pkg_path |-> proj.pkgs[i]]))
             r2 == extractFileSymbols(r1.db, fk, SelectSeq(proj.decls, InPkg), 1)
         IN IF ~r1.ok THEN r1
            ELSE IF r2.ok THEN ExtractSymbolsFrom(r2.db, fk, proj, i + 1) ELSE r2

\* ExtractSymbols in its batch: all rows, or none when a statement fails.
ExtractSymbols(d, fk, proj) ==
    DeferredRollback(d, ExtractSymbolsFrom(d, fk, proj, 1))

resolveHandlerSymbol(d, pkg, expr) ==
    CASE expr.form = "ident" -> GetSymbolID(d, pkg, expr.name, RecvNone)
      [] expr.form = "selector" ->
            LET byValue == GetSymbolID(d, pkg, expr.sel, expr.x) IN
            IF byValue # 0 THEN byValue
            ELSE GetSymbolID(d, pkg, expr.sel, <<"*">> \o expr.x)
      [] OTHER -> 0

\* detectHTTP over the registrations routes[i..]: a registration whose handler
\* resolves is inserted; an insert error is dropped and detection goes on.
RECURSIVE detectHTTP(_, _, _, _)
detectHTTP(d, fk, routes, i) ==
    IF i > Len(routes) THEN Ok(d)
    ELSE LET symbolID == resolveHandlerSymbol(d, routes[i].pkg, routes[i].handler)
             r == BatchStmt(d, InsertEntrypointRow(d, fk, [type |-> "http",
                                               label |-> routes[i].label,
                                               symbol_id |-> symbolID]))
         IN IF symbolID # 0
            THEN detectHTTP(r.db, fk, routes, i + 1)
            ELSE detectHTTP(d, fk, routes, i + 1)

----------------------------------------------------------------------------
(* Indexer: call graph *)

\* Build: the paths of loader.pkgs
ProjectPkgs(proj) == Range(proj.pkgs)

\* lookupSymbolID; 0 when the function is outside the project or not stored.
\* The symbol cache only repeats answers of the same batch and is left out.
lookupSymbolID(d, proj, fn) ==
    IF fn.pkg \notin ProjectPkgs(proj) THEN 0
    ELSE GetSymbolID(d, fn.pkg, fn.name,
                     IF fn.recv.has THEN formatSSAReceiverType(fn.recv) ELSE RecvNone)

isMockPkg(pkgPath) ==
    \/ Contains(pkgPath, <<"/", "m", "o", "c", "k">>)
    \/ Contains(pkgPath, <<"_", "m", "o", "c", "k">>)
    \/ HasSuffix(pkgPath, <<"m", "o", "c", "k", "s">>)
    \/ Contains(pkgPath, <<"/", "f", "a", "k", "e">>)

\* findMethodImplementations: the stored methods of that name on concrete
\* types of project packages, those of mock packages only when there is no
\* other.  The slice follows the iteration of two Go maps (the program's
\* packages, a package's members), so its order is not fixed: a set.
findMethodImplementations(d, proj, methodName) ==
    LET Impl(mock) ==
            { GetSymbolID(d, dc.pkg, methodName, formatSSAReceiverType(dc.recv)) :
                dc \in { x \in Range(proj.decls) :
                           /\ x.decl = "func" /\ x.recv.has
                           /\ x.name = methodName
                           /\ isMockPkg(x.pkg) = mock } } \ {0}
    IN IF Impl(FALSE) # {} THEN Impl(FALSE) ELSE Impl(TRUE)

\* resolveInterfaceMethod: the ids it can answer.  One candidate is the
\* answer; of several, the first of the slice, which can be any of them.
resolveInterfaceMethod(d, proj, methodName) ==
    LET candidates == findMethodImplementations(d, proj, methodName) IN
    IF candidates = {} THEN {0} ELSE candidates

\* The callee ids extractCallEdge can arrive at for an instruction
CalleeOptions(d, proj, instr) ==
    CASE instr.callee.mode = "static"  -> {lookupSymbolID(d, proj, instr.callee.fn)}
      [] instr.callee.mode = "invoke"  ->
            resolveInterfaceMethod(d, proj, instr.callee.method)
      [] instr.callee.mode = "funcval" -> {lookupSymbolID(d, proj, instr.callee.fn)}

callKind(instr) ==
    CASE instr.callee.mode = "invoke"  -> "interface"
      [] instr.callee.mode = "funcval" -> "funcval"
      [] instr.op = "go"               -> "go"
      [] instr.op = "defer"            -> "defer"
      [] OTHER                         -> "static"

\* extractCallEdge with the callee resolved to calleeID: the edges to insert
extractCallEdge(instr, callerID, calleeID) ==
    IF instr.line = 0 \/ calleeID = 0 THEN {}
    ELSE {Edge(callerID, calleeID, instr.file, instr.line, callKind(instr), 1)}

\* The loop of ExtractCallEdgesWithStore over the instructions calls[i..];
\* pick[i] is the callee the i-th instruction was resolved to.
RECURSIVE ExtractCallEdgesFrom(_, _, _, _, _)
ExtractCallEdgesFrom(d, fk, proj, pick, i) ==
    IF i > Len(proj.calls) THEN Ok(d)
    ELSE LET instr == proj.calls[i]
             callerID == lookupSymbolID(d, proj, instr.caller)
             edges == IF callerID = 0 THEN {}
                      ELSE extractCallEdge(instr, callerID, pick[i])
         IN IF edges = {} THEN ExtractCallEdgesFrom(d, fk, proj, pick, i + 1)
            ELSE LET edge == CHOOSE e \in edges : TRUE
                     r == BatchStmt(d, LoggedResult(InsertCallEdgeRow(d, fk, edge), edge))
                 IN IF r.ok THEN ExtractCallEdgesFrom(r.db, fk, proj, pick, i + 1)
                    ELSE r

\* The resolutions one extraction can make of the instructions calls[1..n]
RECURSIVE PicksUpTo(_, _, _)
PicksUpTo(d, proj, n) ==
    IF n = 0 THEN {<<>>}
    ELSE { Append(pick, calleeID) :
             pick \in PicksUpTo(d, proj, n - 1),
             calleeID \in CalleeOptions(d, proj, proj.calls[n]) }

Picks(d, proj) == PicksUpTo(d, proj, Len(proj.calls))

\* ExtractCallEdgesWithStore in its batch
ExtractCallEdgesWithStore(d, fk, proj, pick) ==
    DeferredRollback(d, ExtractCallEdgesFrom(d, fk, proj, pick, 1))

----------------------------------------------------------------------------
(* Indexer: configuration and tagging *)

LayerSvc   == <<"s", "v", "c">>
LayerStore == <<"s", "t", "o", "r", "e">>
CategoryDb == <<"d", "b">>
TagPureIsh == <<"p", "u", "r", "e", "-", "i", "s", "h">>
TagPrefixLayer == <<"l", "a", "y", "e", "r", ":">>
TagIoNet   == <<"i", "o", ":", "n", "e", "t">>

\* The configuration of the indexed project: two layers, whose patterns both
\* match package a.io/svc, and one I/O category
Config ==
    [ Layers |-> { [layer |-> LayerSvc,
                    patterns |-> << <<"*", "*", "/", "s", "v", "c", "*", "*">> >>],
                   [layer |-> LayerStore,
                    patterns |-> << <<"a", ".", "i", "o", "/", "d", "*">>,
                                    <<"a", ".", "i", "o", "/", "s", "*">> >>] },
      IOPackages |-> { [category |-> CategoryDb,
                        packages |-> << <<"d", "a", "t", "a", "b", "a", "s", "e", "/", "s", "q", "l">>,
                                        <<"a", ".", "i", "o", "/", "d", "*">> >>] } ]

\* filepath.Match for patterns of literal characters and "*", which matches
\* any run of characters other than the separator
RECURSIVE filepathMatch(_, _)
filepathMatch(pattern, name) ==
    IF pattern = <<>> THEN name = <<>>
    ELSE IF Head(pattern) = "*"
         THEN \/ filepathMatch(Tail(pattern), name)
              \/ name # <<>> /\ Head(name) # "/" /\ filepathMatch(pattern, Tail(name))
    ELSE name # <<>> /\ Head(name) = Head(pattern)
                     /\ filepathMatch(Tail(pattern), Tail(name))

matchLayerPattern(pattern, pkgPath) ==
    IF /\ Len(pattern) >= 4
       /\ SubSeq(pattern, 1, 2) = <<"*", "*">>
       /\ SubSeq(pattern, Len(pattern) - 1, Len(pattern)) = <<"*", "*">>
    THEN LET middle == SubSeq(pattern, 3, Len(pattern) - 2) IN
         \/ Contains(pkgPath, middle)
         \/ Len(middle) > 0 /\ middle[1] = "/" /\ HasPrefix(pkgPath, Tail(middle))
    ELSE filepathMatch(pattern, pkgPath)

\* GetLayerForPackage ranges over the Layers map and answers the first layer
\* with a matching pattern: any matching layer, or the empty string.
GetLayerForPackage(cfg, pkgPath) ==
    LET matching == { l.layer : l \in { x \in cfg.Layers :
                          \E i \in 1..Len(x.patterns) :
                              matchLayerPattern(x.patterns[i], pkgPath) } }
    IN IF matching = {} THEN {<<>>} ELSE matching

\* GetIOCategory, likewise over the IOPackages map
GetIOCategory(cfg, pkgPath) ==
    LET Hit(pkg) == \/ pkg = pkgPath
                    \/ /\ Len(pkg) > 0 /\ pkg[Len(pkg)] = "*"
                       /\ HasPrefix(pkgPath, SubSeq(pkg, 1, Len(pkg) - 1))
        matching == { c.category : c \in { x \in cfg.IOPackages :
                          \E i \in 1..Len(x.packages) : Hit(x.packages[i]) } }
    IN IF matching = {} THEN {<<>>} ELSE matching

UpperCase == <<"A", "B", "C", "D", "E", "F", "G", "H", "I", "J", "K", "L", "M",
               "N", "O", "P", "Q", "R", "S", "T", "U", "V", "W", "X", "Y", "Z">>
LowerCase == <<"a", "b", "c", "d", "e", "f", "g", "h", "i", "j", "k", "l", "m",
               "n", "o", "p", "q", "r", "s", "t", "u", "v", "w", "x", "y", "z">>

\* strings.ToLower
ToLower(str) ==
    [ i \in 1..Len(str) |->
        IF \E k \in 1..Len(UpperCase) : UpperCase[k] = str[i]
        THEN LowerCase[CHOOSE k \in 1..Len(UpperCase) : UpperCase[k] = str[i]]
        ELSE str[i] ]

\* The part of str after its last dot (all of it when there is none)
AfterLastDot(str) ==
    IF \E i \in 1..Len(str) : str[i] = "."
    THEN LET last == CHOOSE i \in 1..Len(str) :
                        str[i] = "." /\ \A j \in (i + 1)..Len(str) : str[j] # "."
         IN SubSeq(str, last + 1, Len(str))
    ELSE str

getIOTagFromReceiverType(recvType) ==
    LET noStar == IF HasPrefix(recvType, <<"*">>) THEN Tail(recvType) ELSE recvType
        lowerName == ToLower(AfterLastDot(noStar))
    IN IF \/ HasSuffix(lowerName, <<"s", "t", "o", "r", "e">>)
          \/ HasSuffix(lowerName, <<"r", "e", "p", "o">>)
          \/ HasSuffix(lowerName, <<"r", "e", "p", "o", "s", "i", "t", "o", "r", "y">>)
       THEN TagIoDb
       ELSE IF HasSuffix(lowerName, <<"c", "l", "i", "e", "n", "t">>) THEN TagIoNet
       ELSE <<>>

\* SELECT DISTINCT caller package, callee package of the call edges between
\* different packages
GetPackageImports(d) ==
    { <<s1.pkg_path, s2.pkg_path>> :
        <<s1, s2>> \in { p \in d.symbols \X d.symbols :
            /\ p[1].pkg_path # p[2].pkg_path
            /\ \E e \in d.call_edges :
                  e.caller_id = p[1].id /\ e.callee_id = p[2].id } }

\* buildPackageIOCategories, for one package; catOf[imp] is what GetIOCategory
\* answered for the import imp
PackageIOCategories(imports, catOf, pkgPath) ==
    { catOf[imp] : imp \in {x \in imports : x[1] = pkgPath} } \ {<<>>}

Callable(sym) == sym.kind \in {"func", "method"}

\* Tag reasons are shortened to the rule that gave the tag.
getIOTags(sym, categories) ==
    IF ~Callable(sym) THEN {}
    ELSE LET pkgTags == { [symbol_id |-> sym.id, tag |-> TagPrefixIo \o c,
                           reason |-> "import"] : c \in categories }
             ioTag == IF sym.kind = "method" /\ sym.recv_type # RecvNone
                      THEN getIOTagFromReceiverType(sym.recv_type) ELSE <<>>
         IN pkgTags \cup
            (IF ioTag # <<>> /\ ~\E t \in pkgTags : t.tag = ioTag
             THEN {[symbol_id |-> sym.id, tag |-> ioTag, reason |-> "receiver"]}
             ELSE {})

getLayerTag(sym, layer) ==
    IF ~Callable(sym) \/ layer = <<>> THEN {}
    ELSE {[symbol_id |-> sym.id, tag |-> TagPrefixLayer \o layer, reason |-> "layer"]}

\* GROUP_CONCAT(t.tag) over the tag rows of one callee: the tags joined by
\* commas in an order the query does not fix; '' (COALESCE) when there are none
RECURSIVE GroupConcat(_)
GroupConcat(tags) ==
    IF tags = {} THEN {<<>>}
    ELSE UNION { { IF rest = <<>> THEN t ELSE t \o <<",">> \o rest :
                     rest \in GroupConcat(tags \ {t}) } : t \in tags }

\* The loop of splitTags from index i, start being the first character of
\* the piece that is open: a piece ends at a comma, empty pieces are dropped
RECURSIVE splitTagsFrom(_, _, _)
splitTagsFrom(str, start, i) ==
    IF i > Len(str)
    THEN IF start <= Len(str) THEN <<SubSeq(str, start, Len(str))>> ELSE <<>>
    ELSE IF str[i] = ","
         THEN (IF i > start THEN <<SubSeq(str, start, i - 1)>> ELSE <<>>)
              \o splitTagsFrom(str, i + 1, i + 1)
    ELSE splitTagsFrom(str, start, i + 1)

\* splitTags that keeps the string in one piece
splitTags_Whole(str) == IF str = <<>> THEN <<>> ELSE <<str>>

splitTags(str) == IF str = <<>> THEN <<>> ELSE splitTagsFrom(str, 1, 1)

\* The callees as a read before the first pass's Commit meets them: the
\* tags of that pass are not there yet
GetSymbolCalleesWithTags_BeforeCommit(d, concatOf) ==
    { [caller_id |-> e.caller_id, callee_id |-> e.callee_id, tags |-> {}] :
        e \in d.call_edges }

\* SELECT caller_id, callee_id, GROUP_CONCAT of the callee's tags, per pair of
\* caller and callee; concatOf[id] is the string the query gave for callee id
GetSymbolCalleesWithTags(d, concatOf) ==
    { [caller_id |-> e.caller_id, callee_id |-> e.callee_id,
       tags |-> LET tagsStr == concatOf[e.callee_id]
                    tags == splitTags(tagsStr)
                IN { tags[i] : i \in 1..Len(tags) }] : e \in d.call_edges }

getPurityTag(sym, calleeMap) ==
    LET callees == {c \in calleeMap : c.caller_id = sym.id} IN
    IF callees = {}
    THEN {[symbol_id |-> sym.id, tag |-> TagPureIsh, reason |-> "no calls"]}
    ELSE IF \E c \in callees : \E t \in c.tags : HasPrefix(t, TagPrefixIo)
         THEN {}
    ELSE {[symbol_id |-> sym.id, tag |-> TagPureIsh, reason |-> "no I/O calls"]}

\* batch.InsertTag for each tag; the tags have distinct keys, so their order
\* does not show in the result.
RECURSIVE InsertTags(_, _, _)
InsertTags(d, fk, tags) ==
    IF tags = {} THEN Ok(d)
    ELSE LET tag == CHOOSE t \in tags : TRUE
             r == BatchStmt(d, InsertTagRow(d, fk, tag))
         IN IF r.ok THEN InsertTags(r.db, fk, tags \ {tag}) ELSE r

\* First batch of Tagger.Tag: I/O and layer tags of the symbols read from the
\* store.  layerOf[id] is what GetLayerForPackage answered for symbol id.
TagIOAndLayer(d, fk, catOf, layerOf) ==
    LET imports == GetPackageImports(d)
        tags == UNION { getIOTags(sym, PackageIOCategories(imports, catOf, sym.pkg_path))
                          \cup getLayerTag(sym, layerOf[sym.id]) : sym \in d.symbols }
    IN DeferredRollback(d, InsertTags(d, fk, tags))

\* Second batch of Tagger.Tag: purity tags from the committed edges and tags
TagPurity(d, fk, concatOf) ==
    LET calleeMap == GetSymbolCalleesWithTags(d, concatOf)
        tags == UNION { getPurityTag(sym, calleeMap) :
                          sym \in {x \in d.symbols : Callable(x)} }
    IN DeferredRollback(d, InsertTags(d, fk, tags))

\* The functions that give each element x of todo one of options[x]
RECURSIVE ChoicesOver(_, _)
ChoicesOver(todo, options) ==
    IF todo = {} THEN {<<>>}
    ELSE LET x == CHOOSE y \in todo : TRUE IN
         { (x :> o) @@ f : f \in ChoicesOver(todo \ {x}, options), o \in options[x] }

\* What the two configuration lookups can answer during one tagging
CategoryChoices(d, cfg) ==
    LET imports == GetPackageImports(d) IN
    ChoicesOver(imports, [imp \in imports |-> GetIOCategory(cfg, imp[2])])

\* What GROUP_CONCAT can answer for the callees of the call edges
ConcatChoices(d) ==
    LET ids == {e.callee_id : e \in d.call_edges} IN
    ChoicesOver(ids, [id \in ids |-> GroupConcat(GetSymbolTags(d, id))])

LayerChoices(d, cfg) ==
    LET ids == {sym.id : sym \in d.symbols} IN
    ChoicesOver(ids, [id \in ids |->
                        GetLayerForPackage(cfg, GetSymbolByID(d, id).pkg_path)])

----------------------------------------------------------------------------
(* Indexer.Run, one step per committed change, and a server reading *)

MaxRuns == 3        \* runs of the indexer in one behaviour
MaxFault == 2       \* the latest statement of a batch that meets an I/O error

graphVars == <<gb, stack, req, resp>>

Loaded == Projects[idx.loaded]

SymKey(d, id) ==
    LET sym == GetSymbolByID(d, id) IN <<sym.pkg_path, sym.name, sym.recv_type>>

\* What two stores of different runs can be compared by: row counts, and the
\* call edges with their endpoints named by symbol key (ids differ by run)
Summary(d) ==
    [ packages    |-> Cardinality(d.packages),
      symbols     |-> Cardinality(d.symbols),
      entrypoints |-> Cardinality(d.entrypoints),
      tags        |-> Cardinality(d.tags),
      edges       |-> { [caller |-> SymKey(d, e.caller_id),
                         callee |-> SymKey(d, e.callee_id),
                         file |-> e.caller_file, line |-> e.caller_line,
                         count |-> e.count] : e \in d.call_edges } ]

\* The run ends with an error: the deferred Close, nothing else.
Aborted == [idx EXCEPT !.pc = "idle", !.result = "error"]

\* The committed database when the fault-th statement from now is to meet an
\* error, and the database once the batch is over
Faulty(fault) == [db EXCEPT !.fault = fault]

AfterBatch(d) == [d EXCEPT !.fault = 0, !.failed = FALSE]

\* store.Open: creates .flowlens/index.db if need be, a fresh pool
StartRun ==
    /\ idx.pc = "idle" /\ idx.runs < MaxRuns
    /\ ~tx.open
    /\ idx' = [idx EXCEPT !.pc = "clear", !.exists = TRUE, !.runs = @ + 1,
                          !.stages = <<>>, !.result = "none",
                          !.failed = FALSE, !.batchFailed = FALSE]
    /\ pool' = PoolAtOpen
    /\ UNCHANGED <<db, tx, graphVars, reader>>

RunClear ==
    /\ idx.pc = "clear"
    /\ \E conn \in FreeConns :
          LET r == Cleared(ClearRows(db, ForeignKeys(conn))) IN
          /\ db' = r.db
          /\ pool' = Acquired(conn)
          /\ idx' = IF r.ok
                    THEN [idx EXCEPT !.pc = "load", !.complete = FALSE,
                                     !.seq0 = [symbols |-> db.seq_symbols,
                                               entrypoints |-> db.seq_entrypoints]]
                    ELSE [Aborted EXCEPT !.complete = FALSE]
    /\ UNCHANGED <<tx, graphVars, reader>>

\* Loader.Load reads the project as it is on disk
RunLoad ==
    /\ idx.pc = "load"
    /\ idx' = [idx EXCEPT !.pc = "symbols", !.loaded = idx.disk]
    /\ UNCHANGED <<db, tx, pool, graphVars, reader>>

\* packages.Load answers an error
RunLoadFails ==
    /\ idx.pc = "load"
    /\ idx' = Aborted
    /\ UNCHANGED <<db, tx, pool, graphVars, reader>>

\* A stage that runs in one batch: begin, the statements, commit; on an
\* error the deferred Rollback and the end of the run.
RunBatch(stage, next, r, conn) ==
    /\ idx.pc = stage
    /\ ~tx.open
    /\ db' = AfterBatch(r.db)
    /\ LET error == ~r.ok \/ r.db.failed
           run == IF r.ok
                  THEN [idx EXCEPT !.pc = next, !.stages = Append(@, stage)]
                  ELSE Aborted
       IN idx' = [run EXCEPT !.failed = @ \/ error, !.batchFailed = error]
    /\ UNCHANGED <<tx, graphVars, reader>>

RunExtractSymbols ==
    \E conn \in FreeConns, fault \in 0..MaxFault :
        /\ RunBatch("symbols", "entrypoints",
                    ExtractSymbols(Faulty(fault), ForeignKeys(conn), Loaded), conn)
        /\ pool' = Acquired(conn)

RunDetectEntrypoints ==
    \E conn \in FreeConns, fault \in 0..MaxFault :
        /\ RunBatch("entrypoints", "callgraph",
                    DeferredRollback(Faulty(fault),
                        detectHTTP(Faulty(fault), ForeignKeys(conn), Loaded.routes, 1)),
                    conn)
        /\ pool' = Acquired(conn)

RunBuildAndExtract ==
    \E conn \in FreeConns, fault \in 0..MaxFault :
        /\ idx.pc = "callgraph"
        /\ \E pick \in Picks(db, Loaded) :
              RunBatch("callgraph", "tag",
                       ExtractCallEdgesWithStore(Faulty(fault), ForeignKeys(conn),
                                                 Loaded, pick),
                       conn)
        /\ pool' = Acquired(conn)

\* Tagger.Tag up to its first Commit.  The symbols and imports are read
\* through the store while the batch holds its connection, so the pool has
\* a second connection from here on.
RunTag ==
    \E conn \in FreeConns, fault \in 0..MaxFault :
        /\ idx.pc = "tag"
        /\ \E catOf \in CategoryChoices(db, Config), layerOf \in LayerChoices(db, Config) :
              RunBatch("tag", "purity",
                       TagIOAndLayer(Faulty(fault), ForeignKeys(conn), catOf, layerOf),
                       conn)
        /\ pool' = [Acquired(conn) EXCEPT !.conn2 = TRUE]

\* Tagger.Tag from its second BeginBatch
RunPurity ==
    \E conn \in FreeConns, fault \in 0..MaxFault :
        /\ \E concatOf \in ConcatChoices(db) :
              RunBatch("purity", "metadata",
                       TagPurity(Faulty(fault), ForeignKeys(conn), concatOf), conn)
        /\ pool' = Acquired(conn)

\* SetMetadata("indexed_at", now): the clock is the number of the run
RunSetIndexedAt ==
    /\ idx.pc = "metadata"
    /\ \E conn \in FreeConns :
          /\ db' = SetMetadataRow(db, "indexed_at", idx.runs).db
          /\ pool' = Acquired(conn)
    /\ idx' = [idx EXCEPT !.pc = "finish"]
    /\ UNCHANGED <<tx, graphVars, reader>>

\* SetMetadata("project_dir", dir), GetStats, WriteIndexJSON, Close
RunFinish ==
    /\ idx.pc = "finish"
    /\ \E conn \in FreeConns :
          /\ db' = SetMetadataRow(db, "project_dir", "dir").db
          /\ pool' = Acquired(conn)
    /\ idx' = [idx EXCEPT !.pc = "idle", !.complete = TRUE, !.result = "ok",
                          !.prev = idx.last,
                          !.last = [version |-> idx.loaded, summary |-> Summary(db')]]
    /\ UNCHANGED <<tx, graphVars, reader>>

\* The project's files change between runs
EditProject ==
    /\ idx.pc = "idle"
    /\ idx' = [idx EXCEPT !.disk = 3 - @]
    /\ UNCHANGED <<db, tx, pool, graphVars, reader>>

\* flowlens ui: it starts when .flowlens/index.db exists, opens the store
\* and answers queries from whatever is committed.
ServerRead ==
    /\ idx.exists
    /\ reader' = [ seen |-> TRUE, complete |-> idx.complete,
                   symbols |-> Cardinality(db.symbols),
                   call_edges |-> Cardinality(db.call_edges),
                   tags |-> Cardinality(db.tags),
                   indexed |-> \E m \in db.metadata : m.key = "indexed_at" ]
    /\ UNCHANGED <<db, tx, pool, graphVars, idx>>

InitIndex ==
    /\ db = EmptyDb
    /\ tx = NoTx
    /\ pool = PoolAtOpen
    /\ gb = NewGraphBuilder
    /\ stack = <<>>
    /\ req = NoReq
    /\ resp = NoResp
    /\ idx \in {IdleIndexer, [IdleIndexer EXCEPT !.disk = 2]}
    /\ reader = NoReader

NextIndex ==
    \/ StartRun
    \/ RunClear
    \/ RunLoad
    \/ RunLoadFails
    \/ RunExtractSymbols
    \/ RunDetectEntrypoints
    \/ RunBuildAndExtract
    \/ RunTag
    \/ RunPurity
    \/ RunSetIndexedAt
    \/ RunFinish
    \/ EditProject
    \/ ServerRead

SpecIndex == InitIndex /\ [][NextIndex]_vars

----------------------------------------------------------------------------
(* Claims about indexing *)

\* C3: every state of the store a reader observes is the result of a
\* complete indexing run; no reader sees the tables between the start of
\* Clear and the last write of the run.
C3_ReadersSeeCompleteRuns == reader.seen => reader.complete

\* C5: in every committed store state each call_edges row's caller_id and
\* callee_id are ids of symbols rows whose package is a loaded project
\* package.
C5_EdgeEndpointsInProject ==
    \A e \in db.call_edges : \A id \in {e.caller_id, e.callee_id} :
        /\ HasSymbol(db, id)
        /\ idx.loaded # 0
        /\ GetSymbolByID(db, id).pkg_path \in ProjectPkgs(Loaded)

\* The edges of a project with a call out of the project, an unresolvable
\* closure call and two calls at one site are committed.
C5_Witness ==
    /\ idx.pc = "tag" /\ idx.loaded = 1
    /\ \E i \in 1..Len(Loaded.calls) : Loaded.calls[i].callee = Static(FnPrintln)
    /\ \E e \in db.call_edges : e.count = 2
    /\ Cardinality(db.call_edges) = 3

\* C9: after Clear and a complete run every row of every table was written
\* by that run: symbols and entry points carry ids given out after the
\* Clear, edges and tags refer to such symbols, the packages are the loaded
\* ones and the metadata is this run's.
C9_NoResidualRows ==
    (idx.pc = "idle" /\ idx.complete) =>
        /\ \A sym \in db.symbols :
              /\ sym.id > idx.seq0.symbols
              /\ \E i \in 1..Len(Loaded.decls) :
                    declToSymbol(Loaded.decls[i]) = [pkg_path |-> sym.pkg_path,
                        name |-> sym.name, recv_type |-> sym.recv_type,
                        kind |-> sym.kind, line |-> sym.line]
        /\ \A ep \in db.entrypoints : ep.id > idx.seq0.entrypoints
        /\ \A e \in db.call_edges :
              e.caller_id > idx.seq0.symbols /\ e.callee_id > idx.seq0.symbols
        /\ \A t \in db.tags : t.symbol_id > idx.seq0.symbols
        /\ {p.pkg_path : p \in db.packages} = ProjectPkgs(Loaded)
        /\ db.metadata = {[key |-> "indexed_at", value |-> idx.runs],
                          [key |-> "project_dir", value |-> "dir"]}

\* A second complete run, of the edited project, over the rows of the first
C9_Witness ==
    /\ idx.pc = "idle" /\ idx.complete
    /\ idx.prev.version = 1 /\ idx.last.version = 2
    /\ idx.seq0.symbols > 0
    /\ db.symbols # {} /\ db.tags # {}

\* C10: two complete runs on the same unchanged project yield equal numbers
\* of packages, symbols, entry points and tags and the same call edges with
\* the same counts.
C10_RerunSameResult ==
    (idx.pc = "idle" /\ idx.prev.version # 0 /\ idx.prev.version = idx.last.version) =>
        idx.prev.summary = idx.last.summary

StageOrder == <<"symbols", "entrypoints", "callgraph", "tag", "purity">>

IsIoTag(tag) == HasPrefix(tag, TagPrefixIo)

\* A callable symbol one of whose callees carries a committed io:* tag
CallsIo(d, id) ==
    \E e \in d.call_edges :
        /\ e.caller_id = id
        /\ \E t \in d.tags : t.symbol_id = e.callee_id /\ IsIoTag(t.tag)

Tables(d) == <<d.packages, d.symbols, d.call_edges, d.entrypoints, d.tags>>

\* C12: when a statement of a batch has failed, the batch is rolled back:
\* the tables are afterwards what they were before the batch, and the run
\* has returned an error.
C12_FailedBatchRolledBack ==
    [][ (idx.pc \in Range(StageOrder) /\ idx'.pc # idx.pc /\ idx'.batchFailed) =>
            /\ Tables(db') = Tables(db)
            /\ idx'.result = "error" ]_vars

\* C13: a run in which a store write of a stage failed does not return
\* success.
C13_NoSuccessAfterFailedWrite ==
    idx.result = "ok" => ~idx.failed

----------------------------------------------------------------------------
(* Call spine *)

DefaultSpineDepth == 10

PkgLog == <<"a", ".", "i", "o", "/", "l", "o", "g">>

\* The characters of the symbol names of the model
Chars(name) ==
    CASE name = "main"   -> <<"m", "a", "i", "n">>
      [] name = "Handle" -> <<"H", "a", "n", "d", "l", "e">>
      [] name = "Get"    -> <<"G", "e", "t">>
      [] name = "Find"   -> <<"F", "i", "n", "d">>
      [] name = "scan"   -> <<"s", "c", "a", "n">>
      [] name = "Errorf" -> <<"E", "r", "r", "o", "r", "f">>

\* strings.Split(s, "/")[0]
FirstSegment(s) == IF IndexSlash(s) = -1 THEN s ELSE SubSeq(s, 1, IndexSlash(s))

isLoggingPackage(pkgPath) ==
    LET lower == ToLower(pkgPath) IN
    \E pattern \in { <<"l", "o", "g">>, <<"s", "l", "o", "g">>, <<"z", "a", "p">>,
                     <<"l", "o", "g", "r", "u", "s">>,
                     <<"z", "e", "r", "o", "l", "o", "g">>,
                     <<"t", "e", "l", "e", "m", "e", "t", "r", "y">>,
                     <<"m", "e", "t", "r", "i", "c", "s">>,
                     <<"t", "r", "a", "c", "i", "n", "g">>,
                     <<"o", "p", "e", "n", "t", "e", "l", "e", "m", "e", "t", "r", "y">>,
                     <<"p", "r", "o", "m", "e", "t", "h", "e", "u", "s">> } :
        Contains(lower, pattern)

isErrorConstruction(name, pkgPath) ==
    \/ pkgPath = <<"e", "r", "r", "o", "r", "s">> /\ name \in {"New", "Wrap", "Wrapf"}
    \/ pkgPath = PkgFmt /\ name \in {"Errorf", "Sprintf"}
    \/ LET lower == ToLower(Chars(name)) IN
       \/ HasSuffix(lower, <<"e", "r", "r", "o", "r">>)
       \/ HasPrefix(lower, <<"e", "r", "r", "o", "r">>)

\* SpineBuilder.shouldFilterCallee.  HideCmdMain is off in the filters of the
\* model, as in DefaultGraphFilter.
spineShouldFilterCallee(f, sym) ==
    \/ f.HideStdlib /\ isStdlib(sym.pkg_path)
    \/ f.HideVendors /\ isVendor(sym.pkg_path)
    \/ \E i \in 1..Len(f.NoisePackages) :
          matchPackagePattern(f.NoisePackages[i], sym.pkg_path)

\* The rows of GetCallees as CalleeInfo values, ORDER BY caller_line
RECURSIVE SortByLine(_)
SortByLine(rows) ==
    IF rows = {} THEN <<>>
    ELSE LET first == CHOOSE r \in rows : \A o \in rows : r.caller_line <= o.caller_line
         IN <<first>> \o SortByLine(rows \ {first})

CalleeInfos(d, callerID) ==
    SortByLine({ [symbol |-> GetSymbolByID(d, e.callee_id), call_kind |-> e.call_kind,
                  caller_line |-> e.caller_line,
                  tags |-> GetSymbolTags(d, e.callee_id)] : e \in GetCallees(d, callerID) })

\* loadCalleesRecursive and its loop over the filtered callees; loaded is
\* [allCallees, visited]
RECURSIVE loadCalleesRecursive(_, _, _, _, _, _)
RECURSIVE LoadEach(_, _, _, _, _, _, _)
loadCalleesRecursive(d, f, symbolID, maxDepth, currentDepth, loaded) ==
    IF currentDepth >= maxDepth THEN loaded
    ELSE IF symbolID \in loaded.visited THEN loaded
    ELSE LET Kept(c) == ~spineShouldFilterCallee(f, c.symbol)
             filteredCallees == SelectSeq(CalleeInfos(d, symbolID), Kept)
         IN LoadEach(d, f, filteredCallees, 1, maxDepth, currentDepth + 1,
                     [allCallees |-> (symbolID :> filteredCallees) @@ loaded.allCallees,
                      visited |-> loaded.visited \cup {symbolID}])

LoadEach(d, f, callees, i, maxDepth, depth, loaded) ==
    IF i > Len(callees) THEN loaded
    ELSE LoadEach(d, f, callees, i + 1, maxDepth, depth,
                  loadCalleesRecursive(d, f, callees[i].symbol.id, maxDepth, depth, loaded))

\* allCallees[current]: the zero value of the map is the empty slice
CalleesOf(allCallees, current) ==
    IF current \in DOMAIN allCallees THEN allCallees[current] ELSE <<>>

TagLayerService == <<"l", "a", "y", "e", "r", ":", "s", "e", "r", "v", "i", "c", "e">>
TagLayerDomain  == <<"l", "a", "y", "e", "r", ":", "d", "o", "m", "a", "i", "n">>
TagLayerHandler == <<"l", "a", "y", "e", "r", ":", "h", "a", "n", "d", "l", "e", "r">>

\* The score scoreCallees gives one callee.  CollapseWiring is off in the
\* filters of the model, as in DefaultGraphFilter.
CalleeScore(c, rootPkg) ==
      (IF c.symbol.pkg_path = rootPkg THEN 10
       ELSE IF HasPrefix(c.symbol.pkg_path, FirstSegment(rootPkg)) THEN 5 ELSE 0)
    + (IF TagLayerService \in c.tags THEN 8 ELSE 0)
    + (IF TagLayerDomain \in c.tags THEN 7 ELSE 0)
    + (IF TagLayerStore \in c.tags THEN 6 ELSE 0)
    + (IF TagLayerHandler \in c.tags THEN 5 ELSE 0)
    - (IF isLoggingPackage(c.symbol.pkg_path) THEN 15 ELSE 0)
    - (IF isErrorConstruction(c.symbol.name, c.symbol.pkg_path) THEN 20 ELSE 0)
    + (IF c.symbol.recv_type # RecvNone THEN 3 ELSE 0)
    + (IF c.call_kind = "interface" THEN 2 ELSE 0)

\* scoreCallees: the callees not yet on the path, each with its score
scoreCallees(callees, rootPkg, visited) ==
    { [id |-> callees[i].symbol.id, score |-> CalleeScore(callees[i], rootPkg)] :
        i \in { k \in 1..Len(callees) : callees[k].symbol.id \notin visited } }

\* The entries sort.Slice may leave first: sort.Slice is not stable, so any
\* entry of the highest score
BestCallees(scored) == { b \in scored : \A o \in scored : o.score <= b.score }

\* extractLayer: the first tag with the prefix layer:, without the prefix.
\* GetSymbolTags has no ORDER BY, so with several layer tags any of them.
extractLayer(tags) ==
    LET layers == { t \in tags : HasPrefix(t, TagPrefixLayer) }
    IN IF layers = {} THEN {<<>>}
       ELSE { SubSeq(t, Len(TagPrefixLayer) + 1, Len(t)) : t \in layers }

\* The state of determineMainPath's loop
Spine == stack[1]
SpineCurrent == Spine.path[Len(Spine.path)]
SpineScored ==
    scoreCallees(CalleesOf(Spine.allCallees, SpineCurrent), Spine.rootPkg, Spine.visited)

SpineRequest(rootID, maxDepth, requested, f, origin) ==
    /\ req = NoReq
    /\ LET loaded == loadCalleesRecursive(db, f, rootID, maxDepth, 0,
                                          [allCallees |-> <<>>, visited |-> {}])
           found == HasSymbol(db, rootID)
       IN stack' = << [ fn |-> "BuildSpine", allCallees |-> loaded.allCallees,
                        path |-> <<rootID>>, visited |-> {rootID},
                        rootPkg |-> IF found THEN GetSymbolByID(db, rootID).pkg_path
                                    ELSE <<>>,
                        phase |-> IF found THEN "path" ELSE "nodes",
                        cleared |-> FALSE ] >>
    /\ req' = [kind |-> "spine", id |-> rootID, depth |-> maxDepth,
               requested |-> requested, filter |-> f, origin |-> origin]
    /\ resp' = NoResp
    /\ UNCHANGED <<db, tx, pool, gb, idx, reader>>

\* BuildSpine up to the start of determineMainPath's loop
BuildSpine(rootID, maxDepth, f) ==
    SpineRequest(rootID, IF maxDepth <= 0 THEN DefaultSpineDepth ELSE maxDepth,
                 maxDepth, f, Direct)

\* GET /api/spine/{id}?depth=: the depth defaults to 10 and the parameter is
\* taken only when it parses to a number above zero; an unknown symbol is 404
handleSpine(symbolID, depthParam, f) ==
    /\ HasSymbol(db, symbolID)
    /\ LET depth == IF depthParam # NoParam /\ depthParam > 0 THEN depthParam
                    ELSE DefaultSpineDepth
       IN SpineRequest(symbolID, IF depth <= 0 THEN DefaultSpineDepth ELSE depth,
                       depth, f, Http(depthParam))

\* One round of determineMainPath's loop that appends a callee
ExtendPath ==
    /\ stack # <<>> /\ Spine.fn = "BuildSpine" /\ Spine.phase = "path"
    /\ Len(Spine.path) < req.depth
    /\ \E best \in BestCallees(SpineScored) :
          stack' = << [Spine EXCEPT !.path = Append(@, best.id),
                                    !.visited = @ \cup {best.id}] >>
    /\ UNCHANGED <<db, tx, pool, gb, req, resp, idx, reader>>

\* The loop ends: the depth is reached or no callee is left to score
EndPath ==
    /\ stack # <<>> /\ Spine.fn = "BuildSpine" /\ Spine.phase = "path"
    /\ Len(Spine.path) >= req.depth \/ SpineScored = {}
    /\ stack' = << [Spine EXCEPT !.phase = "nodes"] >>
    /\ UNCHANGED <<db, tx, pool, gb, req, resp, idx, reader>>

NoBadge == [call_count |-> 0]

RangeOf(seq) == { seq[i] : i \in 1..Len(seq) }

\* The branch badge of a path node: its loaded callees that are off the path
\* and pass the filter, in the order of the callee list
BranchBadgeOf(f, callees, mainPathSet) ==
    LET Collapsed(c) == c.symbol.id \notin mainPathSet
                        /\ ~spineShouldFilterCallee(f, c.symbol)
        collapsed == SelectSeq(callees, Collapsed)
    IN IF collapsed = <<>> THEN NoBadge
       ELSE [ call_count |-> Len(collapsed),
              collapsed_ids |-> [ k \in 1..Len(collapsed) |-> collapsed[k].symbol.id ],
              labels |-> [ k \in 1..Len(collapsed) |->
                             IF collapsed[k].symbol.recv_type # RecvNone
                             THEN <<"(">> \o collapsed[k].symbol.recv_type \o <<")", ".">>
                                  \o Chars(collapsed[k].symbol.name)
                             ELSE Chars(collapsed[k].symbol.name) ] ]

\* The loop of BuildSpine over mainPath from index i (counted from 1): an id
\* GetSymbolByID does not find is skipped, and a node keeps the index of its
\* id in mainPath as its depth.  layers[i] is what extractLayer answers.
RECURSIVE SpineNodes(_, _, _, _, _, _)
SpineNodes(d, f, allCallees, mainPath, layers, i) ==
    IF i > Len(mainPath) THEN <<>>
    ELSE IF ~HasSymbol(d, mainPath[i])
         THEN SpineNodes(d, f, allCallees, mainPath, layers, i + 1)
    ELSE LET sym == GetSymbolByID(d, mainPath[i])
             node == [ id |-> mainPath[i], name |-> sym.name, pkg_path |-> sym.pkg_path,
                       recv_type |-> sym.recv_type, line |-> sym.line,
                       tags |-> GetSymbolTags(d, mainPath[i]),
                       depth |-> i - 1, is_main_path |-> TRUE, layer |-> layers[i],
                       branch_badge |-> BranchBadgeOf(f, CalleesOf(allCallees, mainPath[i]),
                                                      RangeOf(mainPath)) ]
         IN <<node>> \o SpineNodes(d, f, allCallees, mainPath, layers, i + 1)

RECURSIVE SumSeq(_)
SumSeq(seq) == IF seq = <<>> THEN 0 ELSE Head(seq) + SumSeq(Tail(seq))

\* The rest of BuildSpine: the nodes, the counts and the response
BuildNodes ==
    /\ stack # <<>> /\ Spine.fn = "BuildSpine" /\ Spine.phase = "nodes"
    /\ \E layers \in { l \in [1..Len(Spine.path) ->
                                UNION { extractLayer(GetSymbolTags(db, id)) :
                                          id \in RangeOf(Spine.path) }] :
                         \A i \in 1..Len(Spine.path) :
                            l[i] \in extractLayer(GetSymbolTags(db, Spine.path[i])) } :
          LET nodes == SpineNodes(db, req.filter, Spine.allCallees, Spine.path, layers, 1)
          IN resp' = [ ready |-> TRUE, nodes |-> nodes, main_path |-> Spine.path,
                       total_nodes |->
                           SumSeq([ k \in 1..Len(nodes) |->
                                      Len(CalleesOf(Spine.allCallees, nodes[k].id)) ])
                           + Len(Spine.path),
                       collapsed_count |->
                           SumSeq([ k \in 1..Len(nodes) |-> nodes[k].branch_badge.call_count ]),
                       cleared |-> Spine.cleared ]
    /\ stack' = <<>>
    /\ UNCHANGED <<db, tx, pool, gb, req, idx, reader>>

\* `flowlens index` run on the same database while a spine request is being
\* answered: its Clear commits table by table, and the queries of BuildSpine
\* are not in one transaction
IndexerClear ==
    /\ stack # <<>> /\ Spine.fn = "BuildSpine" /\ ~Spine.cleared
    /\ db.symbols # {}
    /\ db' = Cleared(ClearRows(db, TRUE)).db
    /\ stack' = << [Spine EXCEPT !.cleared = TRUE] >>
    /\ UNCHANGED <<tx, pool, gb, req, resp, idx, reader>>

\* The client reads the response
SpineDone ==
    /\ req # NoReq /\ req.kind = "spine" /\ resp.ready
    /\ req' = NoReq
    /\ resp' = NoResp
    /\ UNCHANGED <<db, tx, pool, gb, stack, idx, reader>>

----------------------------------------------------------------------------
(* Spine queries over a stored call graph *)

SpineSymbols == GraphSymbols \cup { Sym(6, PkgLog, "Errorf", RecvNone, "func", 6) }

SpineTags ==
    { [symbol_id |-> 3, tag |-> TagLayerService, reason |-> "layer"],
      [symbol_id |-> 4, tag |-> TagLayerStore, reason |-> "layer"],
      [symbol_id |-> 4, tag |-> TagIoDb, reason |-> "recv"] }

SpineEdges ==
    { Edge(1, 2, "main.go", 10, "static", 1),
      Edge(1, 2, "main.go", 12, "go", 1),
      Edge(1, 4, "main.go", 13, "static", 1),
      Edge(2, 3, "api.go", 20, "interface", 1),
      Edge(3, 4, "svc.go", 30, "static", 2),
      Edge(4, 5, "db.go", 40, "static", 1),
      Edge(4, 2, "db.go", 41, "defer", 1),
      Edge(5, 6, "db.go", 50, "static", 1) }

SpineFilters ==
    { DefaultGraphFilter, [DefaultGraphFilter EXCEPT !.NoisePackages = <<PatSvcAll>>] }

\* 7 is the id of no symbol
SpineRoots == 1..7

SpineDepths == {0, 2, 4}

InitSpine ==
    /\ \E E \in SUBSET SpineEdges :
          db = [EmptyDb EXCEPT !.symbols = SpineSymbols, !.tags = SpineTags,
                               !.call_edges = E, !.seq_symbols = 6]
    /\ tx = NoTx
    /\ pool = PoolAtOpen
    /\ gb = NewGraphBuilder
    /\ stack = <<>>
    /\ req = NoReq
    /\ resp = NoResp
    /\ idx = IdleIndexer
    /\ reader = NoReader

NextSpine ==
    \/ \E rootID \in SpineRoots, maxDepth \in SpineDepths, f \in SpineFilters :
          BuildSpine(rootID, maxDepth, f)
    \/ \E symbolID \in SpineRoots, depthParam \in {NoParam, 0, 4}, f \in SpineFilters :
          handleSpine(symbolID, depthParam, f)
    \/ ExtendPath
    \/ EndPath
    \/ BuildNodes
    \/ IndexerClear

SpecSpine == InitSpine /\ [][NextSpine]_vars

SpineResponse == req # NoReq /\ req.kind = "spine" /\ resp.ready

\* C19: in every spine response, for every index i of main_path, nodes[i]
\* exists, its id is main_path[i] and its depth is i (indices from 0).
C19_NodesFollowMainPath ==
    SpineResponse =>
        \A i \in 1..Len(resp.main_path) :
            /\ i <= Len(resp.nodes)
            /\ resp.nodes[i].id = resp.main_path[i]
            /\ resp.nodes[i].depth = i - 1

\* The callees of a symbol in the store that pass the filter and are not on
\* the path
SurvivingCallees(d, f, symbolID, path) ==
    { e.callee_id : e \in { c \in GetCallees(d, symbolID) :
                              /\ c.callee_id \notin RangeOf(path)
                              /\ ~spineShouldFilterCallee(f, GetSymbolByID(d, c.callee_id)) } }

\* C20: the main path of a spine response is no longer than max_depth, and
\* when it is shorter its last node has no callee that passes the filters and
\* is not yet on the path.
C20_PathEndsOnlyWhenExhausted ==
    SpineResponse =>
        /\ Len(resp.main_path) <= req.depth
        /\ Len(resp.main_path) < req.depth =>
              SurvivingCallees(db, req.filter, resp.main_path[Len(resp.main_path)],
                               resp.main_path) = {}

BadgeIds(node) ==
    IF node.branch_badge.call_count = 0 THEN <<>> ELSE node.branch_badge.collapsed_ids

\* C21: in a spine response the branch badge of every path node lists each
\* callee of the node that passes the filter and is off the main path exactly
\* once and nothing else, and collapsed_count is the number of such callees.
C21_BadgeListsOffPathCallees ==
    SpineResponse =>
        /\ \A k \in 1..Len(resp.nodes) :
              LET ids == BadgeIds(resp.nodes[k])
                  off == SurvivingCallees(db, req.filter, resp.nodes[k].id, resp.main_path)
              IN /\ RangeOf(ids) = off
                 /\ Len(ids) = Cardinality(off)
                 /\ resp.nodes[k].branch_badge.call_count = Cardinality(off)
        /\ resp.collapsed_count =
              SumSeq([ k \in 1..Len(resp.nodes) |->
                         Cardinality(SurvivingCallees(db, req.filter, resp.nodes[k].id,
                                                      resp.main_path)) ])

----------------------------------------------------------------------------
(* The server: requests in flight and shutdown *)

ShutdownTimeout == 10       \* seconds of the context given to Shutdown
MaxHandlers == 2            \* one-query requests being served at a time

\* The server process is the reader of the index: its position in Start, the
\* listener, the store handle, the handlers that are running, the seconds
\* since Shutdown was called and the response written last
Serving ==
    [ phase |-> "serving", listening |-> TRUE, storeOpen |-> TRUE, handlers |-> {},
      elapsed |-> 0, drained |-> 0, last |-> [kind |-> "none", status |-> 0, rows |-> 0] ]

Request(kind, id, type, query) ==
    [kind |-> kind, id |-> id, type |-> type, query |-> query]

\* Requests to the single-query endpoints, failing ones among them: 7 is the
\* id of no symbol, a search needs a query, a CFG may fail to build
ServerRequests ==
    { Request("entrypoints", 0, "http", <<>>),
      Request("symbol", 1, "", <<>>), Request("symbol", 7, "", <<>>),
      Request("search", 0, "", <<"a", "n">>), Request("search", 0, "", <<>>),
      Request("cfg", 4, "", <<>>) }

\* The index the server was started on
ServedDb ==
    [EmptyDb EXCEPT
        !.packages = { [pkg_path |-> PkgMain], [pkg_path |-> PkgDb] },
        !.symbols = SpineSymbols, !.tags = SpineTags,
        !.call_edges = { Edge(1, 2, "main.go", 10, "static", 1),
                         Edge(1, 4, "main.go", 13, "static", 1),
                         Edge(4, 5, "db.go", 40, "static", 1) },
        !.entrypoints = { [id |-> 1, type |-> "main", label |-> "main", symbol_id |-> 1],
                          [id |-> 2, type |-> "http", label |-> "GET /", symbol_id |-> 2] },
        !.seq_symbols = 6, !.seq_entrypoints = 2]

\* entrypoints JOIN symbols, WHERE type = ? when a type is given
GetEntrypoints(d, type) ==
    { e \in d.entrypoints : HasSymbol(d, e.symbol_id) /\ (type = "" \/ e.type = type) }

\* symbols WHERE name LIKE %query% OR pkg_path LIKE %query%; LIKE does not
\* tell the case of ASCII letters.  The limit of 50 is above the rows there are.
SearchSymbols(d, query) ==
    { sym \in d.symbols :
        \/ Contains(ToLower(Chars(sym.name)), ToLower(query))
        \/ Contains(ToLower(sym.pkg_path), ToLower(query)) }

\* call_edges JOIN symbols ON caller_id = id WHERE callee_id = calleeID
GetCallers(d, calleeID) ==
    {e \in d.call_edges : e.callee_id = calleeID /\ HasSymbol(d, e.caller_id)}

\* The tables after s.db.Query has run a SELECT and emptied them
AfterSelect_Emptied(d) == [d EXCEPT !.tags = {}, !.call_edges = {}]

\* The tables after s.db.Query or s.db.QueryRow has run a SELECT
AfterSelect(d) == d

\* What a handler answers on the store d: status and number of rows in the
\* body.  built is whether BuildCFG got an SSA function for the symbol.
Answer(d, r, built) ==
    CASE r.kind = "entrypoints" ->
            [kind |-> r.kind, status |-> 200, rows |-> Cardinality(GetEntrypoints(d, r.type))]
      [] r.kind = "symbol" ->
            IF ~HasSymbol(d, r.id) THEN [kind |-> r.kind, status |-> 404, rows |-> 0]
            ELSE [kind |-> r.kind, status |-> 200,
                  rows |-> 1 + Cardinality(GetSymbolTags(d, r.id))
                             + Cardinality(GetCallees(d, r.id))
                             + Cardinality(GetCallers(d, r.id))]
      [] r.kind = "search" ->
            IF r.query = <<>> THEN [kind |-> r.kind, status |-> 400, rows |-> 0]
            ELSE [kind |-> r.kind, status |-> 200,
                  rows |-> Cardinality(SearchSymbols(d, r.query))]
      [] r.kind = "cfg" ->
            IF ~HasSymbol(d, r.id) THEN [kind |-> r.kind, status |-> 404, rows |-> 0]
            ELSE IF built THEN [kind |-> r.kind, status |-> 200, rows |-> 1]
            ELSE [kind |-> r.kind, status |-> 500, rows |-> 0]

Running == reader.phase \notin {"stopped", "failed"}

\* The requests being served: the single-query handlers and the graph or
\* spine request
InFlight == Cardinality(reader.handlers) + (IF req # NoReq THEN 1 ELSE 0)

Written(answer) ==
    [reader EXCEPT !.last = answer,
                   !.drained = IF reader.phase = "draining" /\ @ = 0 THEN 1 ELSE @]

\* ListenAndServe accepts a connection and starts the handler of its request
Accept(r) ==
    /\ Running /\ reader.listening
    /\ r \notin reader.handlers
    /\ Cardinality(reader.handlers) < MaxHandlers
    /\ reader' = [reader EXCEPT !.handlers = @ \cup {r}]
    /\ UNCHANGED <<db, tx, pool, gb, stack, req, resp, idx>>

\* handleEntrypoints, handleSymbol, handleSearch or handleCFG from its first
\* store call to writeJSON or writeError
Handle(r) ==
    /\ Running
    /\ r \in reader.handlers
    /\ db' = AfterSelect(db)
    /\ \E built \in BOOLEAN :
          reader' = [Written(Answer(db, r, built)) EXCEPT !.handlers = @ \ {r}]
    /\ UNCHANGED <<tx, pool, gb, stack, req, resp, idx>>

\* writeJSON of handleGraph or handleSpine: the request is over
WriteResponse ==
    /\ Running
    /\ req # NoReq /\ resp.ready
    /\ reader' = Written([kind |-> req.kind, status |-> 200, rows |-> Cardinality(DOMAIN resp.nodes)])
    /\ req' = NoReq
    /\ resp' = NoResp
    /\ gb' = NewGraphBuilder
    /\ stack' = <<>>
    /\ UNCHANGED <<db, tx, pool, idx>>

\* SIGINT or SIGTERM arrives: Start goes on from <-stop
Signal ==
    /\ reader.phase = "serving"
    /\ reader' = [reader EXCEPT !.phase = "signalled"]
    /\ UNCHANGED <<db, tx, pool, gb, stack, req, resp, idx>>

\* httpServer.Shutdown(ctx) closes the listeners and starts to wait
ShutdownCloses ==
    /\ reader.phase = "signalled"
    /\ reader' = [reader EXCEPT !.phase = "draining", !.listening = FALSE, !.elapsed = 0]
    /\ UNCHANGED <<db, tx, pool, gb, stack, req, resp, idx>>

\* Shutdown finds no connection busy
Drained_Always == TRUE

Drained == InFlight = 0

\* A second passes while Shutdown waits
Tick ==
    /\ reader.phase = "draining"
    /\ reader.elapsed < ShutdownTimeout
    /\ reader' = [reader EXCEPT !.elapsed = @ + 1]
    /\ UNCHANGED <<db, tx, pool, gb, stack, req, resp, idx>>

\* Shutdown returns nil
ShutdownReturns ==
    /\ reader.phase = "draining"
    /\ Drained
    /\ reader' = [reader EXCEPT !.phase = "closing"]
    /\ UNCHANGED <<db, tx, pool, gb, stack, req, resp, idx>>

\* The context expires with a request still in flight: Shutdown returns its
\* error and Start returns it without closing the store
ShutdownTimesOut ==
    /\ reader.phase = "draining"
    /\ reader.elapsed = ShutdownTimeout
    /\ ~Drained
    /\ reader' = [reader EXCEPT !.phase = "failed"]
    /\ UNCHANGED <<db, tx, pool, gb, stack, req, resp, idx>>

\* s.store.Close() and the return of Start
CloseStore ==
    /\ reader.phase = "closing"
    /\ reader' = [reader EXCEPT !.phase = "stopped", !.storeOpen = FALSE]
    /\ UNCHANGED <<db, tx, pool, gb, stack, req, resp, idx>>

InitServer ==
    /\ db = ServedDb
    /\ tx = NoTx
    /\ pool = PoolAtOpen
    /\ gb = NewGraphBuilder
    /\ stack = <<>>
    /\ req = NoReq
    /\ resp = NoResp
    /\ idx = IdleIndexer
    /\ reader = Serving

NextServer ==
    \/ \E r \in ServerRequests : Accept(r)
    \/ \E r \in ServerRequests : Handle(r)
    \/ \E action \in {"root", "expand"}, id \in {4} :
          /\ Running /\ reader.listening
          /\ handleGraph(action, id, NoParam, DefaultGraphFilter)
    \/ \E id \in {1} :
          /\ Running /\ reader.listening
          /\ handleSpine(id, NoParam, DefaultGraphFilter)
    \/ Running /\ req.kind \in {"root", "expand"} /\ ExpandCallee
    \/ Running /\ req.kind \in {"root", "expand"} /\ ExpandReturn
    \/ Running /\ req.kind \in {"root", "expand"} /\ Respond
    \/ Running /\ req.kind = "spine" /\ ExtendPath
    \/ Running /\ req.kind = "spine" /\ EndPath
    \/ Running /\ req.kind = "spine" /\ BuildNodes
    \/ WriteResponse
    \/ Signal
    \/ ShutdownCloses
    \/ Tick
    \/ ShutdownReturns
    \/ ShutdownTimesOut
    \/ CloseStore

SpecServer == InitServer /\ [][NextServer]_vars

ServerStopsInOrder ==
    /\ reader.phase \in {"draining", "closing", "stopped", "failed"} => ~reader.listening
    /\ reader.elapsed <= ShutdownTimeout
    /\ (reader.phase = "draining" /\ reader.elapsed = ShutdownTimeout) =>
          ENABLED (ShutdownReturns \/ ShutdownTimesOut)
    /\ reader.phase = "closing" => InFlight = 0
    /\ ~reader.storeOpen => (reader.phase = "stopped" /\ InFlight = 0)

AcceptsOnlyWhileListening == InFlight' > InFlight => reader.listening

ClosesOnlyAfterDrain ==
    (reader.storeOpen /\ ~reader'.storeOpen) =>
        (~reader.listening /\ InFlight = 0 /\ reader.elapsed <= ShutdownTimeout)

\* C25: after the shutdown signal the server first closes its listener, so
\* no request starts any more; it then waits for the requests in flight, for
\* at most 10 s; the store is closed only after that, and never while a
\* request is being served.
C25_ShutdownDrainsBeforeClose ==
    /\ []ServerStopsInOrder
    /\ [][AcceptsOnlyWhileListening /\ ClosesOnlyAfterDrain]_vars

\* The store has been closed after a wait of some seconds in which a request
\* that was in flight at the signal was answered.
C25_Witness ==
    /\ reader.phase = "stopped" /\ ~reader.storeOpen
    /\ reader.elapsed > 0 /\ reader.drained = 1

----------------------------------------------------------------------------
(* Tagging *)

HasTag(d, id, tag) == \E t \in d.tags : t.symbol_id = id /\ t.tag = tag

\* C23: in the store and in the working copy of an open batch, every symbol
\* has at most one tag that begins with layer: (a layer tag written to a
\* symbol that carries another one replaces it).
C23_OneLayerTagPerSymbol ==
    \A d \in Visible : \A a, b \in d.tags :
        (/\ a.symbol_id = b.symbol_id
         /\ HasPrefix(a.tag, TagPrefixLayer)
         /\ HasPrefix(b.tag, TagPrefixLayer)) => a.tag = b.tag

ConfigLayerOrder == <<LayerSvc, LayerStore>>

LayerMatches(cfg, layer, pkgPath) ==
    \E l \in cfg.Layers :
        /\ l.layer = layer
        /\ \E i \in 1..Len(l.patterns) : matchLayerPattern(l.patterns[i], pkgPath)

\* The first layer of the file with a pattern that matches, or none
FirstMatchingLayer(cfg, pkgPath) ==
    LET hits == { i \in 1..Len(ConfigLayerOrder) :
                    LayerMatches(cfg, ConfigLayerOrder[i], pkgPath) }
    IN IF hits = {} THEN <<>>
       ELSE ConfigLayerOrder[CHOOSE i \in hits : \A j \in hits : i <= j]

LayerTagsOf(d, id) == { t \in GetSymbolTags(d, id) : HasPrefix(t, TagPrefixLayer) }

\* C26: once the first tagging pass of a run has committed, every function
\* or method of a package that matches a layer carries the tag of the first
\* matching layer of the configuration and no other layer tag, on every run.
C26_FirstMatchingLayerWins ==
    (\E i \in 1..Len(idx.stages) : idx.stages[i] = "tag") =>
        \A sym \in {x \in db.symbols : Callable(x)} :
            LET first == FirstMatchingLayer(Config, sym.pkg_path) IN
            first # <<>> => LayerTagsOf(db, sym.id) = {TagPrefixLayer \o first}

----------------------------------------------------------------------------
(* matchPackagePattern on bounded inputs *)

MaxPatternLen == 3

PatternStrings == UNION { [1..n -> {"a", "/", "*"}] : n \in 0..MaxPatternLen }
PathStrings == UNION { [1..n -> {"a", "/"}] : n \in 0..MaxPatternLen }

InitMatch ==
    /\ db = EmptyDb
    /\ tx = NoTx
    /\ pool = PoolAtOpen
    /\ gb = NewGraphBuilder
    /\ stack = <<>>
    /\ \E pattern \in PatternStrings, pkgPath \in PathStrings :
          req = [kind |-> "match", pattern |-> pattern, pkgPath |-> pkgPath]
    /\ resp = NoResp
    /\ idx = IdleIndexer
    /\ reader = NoReader

Match ==
    /\ req.kind = "match" /\ ~resp.ready
    /\ resp' = [ready |-> TRUE, result |-> matchPackagePattern(req.pattern, req.pkgPath)]
    /\ UNCHANGED <<db, tx, pool, gb, stack, req, idx, reader>>

NextMatch == Match

SpecMatch == InitMatch /\ [][NextMatch]_vars

\* C27: matchPackagePattern(p, pkg) is true exactly when pkg equals p, or p
\* ends with * and pkg starts with p without that *, or p ends with /* and
\* pkg starts with p up to and including the slash or equals p without /*.
C27_MatchPackagePattern ==
    resp.ready =>
        LET p == req.pattern
            pkg == req.pkgPath
        IN resp.result <=>
              \/ pkg = p
              \/ HasSuffix(p, <<"*">>) /\ HasPrefix(pkg, SubSeq(p, 1, Len(p) - 1))
              \/ /\ HasSuffix(p, <<"/", "*">>)
                 /\ \/ HasPrefix(pkg, SubSeq(p, 1, Len(p) - 1))
                    \/ pkg = SubSeq(p, 1, Len(p) - 2)

----------------------------------------------------------------------------
(* Depths of graph nodes *)

\* The breadth-first level of id from the root in the filtered graph: the
\* least number of call steps along filtered, unstopped paths.
RECURSIVE LevelFrom(_, _, _, _, _)
LevelFrom(d, f, rootID, id, k) ==
    IF k >= Cardinality(d.symbols) \/ id \in ReachWithin(d, f, {rootID}, {rootID}, k)
    THEN k
    ELSE LevelFrom(d, f, rootID, id, k + 1)

\* C29: in every graph response the root has depth 0 and expanded = true,
\* and every other node's depth is its breadth-first level from the root in
\* the filtered graph.
C29_DepthIsBreadthFirstLevel ==
    ResponseReady =>
        /\ req.id \in NodeIds(resp) =>
              resp.nodes[req.id].depth = 0 /\ resp.nodes[req.id].expanded
        /\ \A n \in NodeIds(resp) \ {req.id} :
              resp.nodes[n].depth = LevelFrom(db, req.filter, req.id, n, 1)

----------------------------------------------------------------------------
(* The same graph query asked twice *)

\* A second request with the root, depth and filter of the one just answered,
\* on a new GraphBuilder; the first response is kept for comparison.
Repeat ==
    /\ ResponseReady /\ reader = NoReader
    /\ LET g1 == addNode(db, req.filter, NewGraphBuilder, req.id, 0, TRUE)
           r  == EnterExpand(db, req.filter, g1, <<>>, req.id, req.depth, 0)
       IN /\ gb' = r.gb
          /\ stack' = r.stack
    /\ reader' = [kind |-> "first", nodes |-> resp.nodes, edges |-> resp.edges]
    /\ resp' = NoResp
    /\ UNCHANGED <<db, tx, pool, req, idx>>

RepeatFilters ==
    { DefaultGraphFilter, [DefaultGraphFilter EXCEPT !.StopAtIO = TRUE] }

NextRepeat ==
    \/ \E id \in {1, 2}, depth \in 1..MaxReqDepth, f \in RepeatFilters :
          BuildFromRoot(id, depth, f)
    \/ ExpandCallee
    \/ ExpandReturn
    \/ Respond
    \/ Repeat

SpecRepeat == InitGraph /\ [][NextRepeat]_vars

NodeView(nodes) ==
    [n \in DOMAIN nodes |-> [depth |-> nodes[n].depth, expanded |-> nodes[n].expanded]]

\* C28: two graph queries with the same root, depth and filter against the
\* same unchanged store return the same set of nodes, with the same depth
\* and expanded flag for each node, and the same set of edges.
C28_SameQuerySameGraph ==
    (ResponseReady /\ reader # NoReader) =>
        /\ NodeView(resp.nodes) = NodeView(reader.nodes)
        /\ Range(resp.edges) = Range(reader.edges)

----------------------------------------------------------------------------
(* Failed indexing runs and the server *)

\* The store holds the generation the last successful run wrote
HoldsLastGeneration ==
    /\ idx.last.version # 0
    /\ Summary(db) = idx.last.summary
    /\ \E m \in db.metadata : m.key = "indexed_at"

\* C30: a run that has failed after Clear started leaves either the complete
\* previous generation or no index.db for ui to open, so a server started
\* afterwards never serves a partially built generation.
C30_FailedRunLeavesNoPartialIndex ==
    (idx.pc = "idle" /\ idx.result = "error") =>
        ~idx.exists \/ HoldsLastGeneration

====
